---- MODULE Spec2Model ----
(***************************************************************************)
(* Feature compatibility and test orchestration of the long-running agent: *)
(* the dependency graph and dependency validation of CompatibilityManager, *)
(* the tiered IntegrationTestRunner, and the session protocol of           *)
(* CodingAgent (pre-implementation gate, collaborator, completion report). *)
(***************************************************************************)
EXTENDS Integers, Sequences, FiniteSets, TLC

VARIABLES
    features,   \* the records of features.json, in file order
    shape,      \* wire shape of features.json: "wrapped" ({"features": [...]}) or "bare" ([...])
    contracts,  \* interface_contracts.json: sequence of contract records
    itests,     \* integration_tests.json: sequence of IntegrationTest records
    config,     \* test_config.json as load_test_config returns it, and whether the test directory exists
    op,         \* the last CompatibilityManager call: its name, argument and return value
    walk,       \* locals of get_feature_dependencies while its while-loop runs
    gate,       \* the last pre- or post-implementation check: its argument and return value
    launched,   \* the processes the last test-runner call launched, in order
    session,    \* locals of CodingAgent.run and what it returned
    test_results, \* the test_results directory: file name -> the batch written to it
    now,        \* the wall clock, in whole seconds
    runner      \* locals of run_smoke_tests while its for-loop runs

\* the files of the project directory
files == <<features, shape, contracts, itests, config>>

\* what only the test runner touches
bench == <<test_results, now, runner>>

vars == <<features, shape, contracts, itests, config, op, walk, gate, launched, session,
          test_results, now, runner>>

(***************************************************************************)
(* Bounds of the model.                                                    *)
(***************************************************************************)
\* most dependency edges declared in one ledger of SpecWalk
MaxEdges == 3
\* most dependency edges declared in one ledger of SpecGraph and SpecPost
MaxGraphEdges == 2
\* most smoke checks configured
MaxSmoke == 1
\* most dependency edges declared in one ledger of SpecGate and SpecSession
MaxGateEdges == 1
\* most implementers one contract of SpecContracts lists
MaxImplementers == 2
\* most smoke checks one configuration of SpecRunner lists
MaxChecks == 2

\* ids the ledger may hold, in ledger order; an id the ledger leaves out is unknown to it
AllIds == <<"F001", "F002", "F003">>
IdSet == {AllIds[i] : i \in 1..Len(AllIds)}
\* how many features a ledger of the model holds: all of AllIds, or all but the last
LedgerSizes == {Len(AllIds) - 1, Len(AllIds)}

(***************************************************************************)
(* Feature records and dependency edges.                                   *)
(***************************************************************************)
\* a bare edge is the id itself; a typed edge is a FeatureDependency dict
BareEdge(id) == [bare |-> id]
TypedEdge(id, t) == [feature_id |-> id, dependency_type |-> t]
IsDict(d) == "feature_id" \in DOMAIN d

\* d.get("feature_id") if isinstance(d, dict) else d
DepId(d) == IF IsDict(d) THEN d.feature_id ELSE d.bare

\* mutant: a typed edge counts only when its type is hard
DepIdsHardOnly(deps) ==
    LET hard == SelectSeq(deps, LAMBDA d : IsDict(d) => d.dependency_type = "hard")
    IN  [i \in 1..Len(hard) |-> DepId(hard[i])]

\* [DepId(d) for d in deps]
DepIds(deps) == [i \in 1..Len(deps) |-> DepId(deps[i])]

Range(s) == {s[i] : i \in 1..Len(s)}

\* {f.get("id"): f for f in features}: a later record replaces an earlier one of the same id
LookupIndex(fs, id) ==
    LET hits == {i \in 1..Len(fs) : fs[i].id = id}
    IN  IF hits = {} THEN 0 ELSE CHOOSE i \in hits : \A j \in hits : j <= i

InLedger(fs, id) == LookupIndex(fs, id) # 0

\* CompatibilityManager.load_features(...).get("features", []): a bare list has no .get
LoadRaises(sh) == sh = "bare"

AttributeError == [raised |-> "AttributeError"]
Raised(r) == "raised" \in DOMAIN r

(***************************************************************************)
(* CompatibilityManager: dependency graph queries.                         *)
(***************************************************************************)
\* mutant: an id the ledger does not hold is let through, as an unknown dependency is
NotFoundPermissive(feature_id) ==
    [can_implement |-> TRUE, error |-> <<"Feature not found", feature_id>>]

\* the not-found return of validate_dependency_order
NotFound(feature_id) == [can_implement |-> FALSE, error |-> <<"Feature not found", feature_id>>]

\* mutant: no dependency counts as incomplete
IsIncompleteDepNever(fs, dep_id) == FALSE

\* mutant: a dependency the ledger does not hold counts as incomplete too
IsIncompleteDepStrict(fs, dep_id) ==
    ~InLedger(fs, dep_id) \/ ~fs[LookupIndex(fs, dep_id)].passes

\* dep_feature and not dep_feature.get("passes", False)
IsIncompleteDep(fs, dep_id) == InLedger(fs, dep_id) /\ ~fs[LookupIndex(fs, dep_id)].passes

\* mutant: every declared dependency is appended, complete or not
MissingDepsEvery(fs, dep_ids) == dep_ids

\* the loop over dep_ids that appends every incomplete dependency to missing
MissingDeps(fs, dep_ids) == SelectSeq(dep_ids, LAMBDA d : IsIncompleteDep(fs, d))

ValidateDependencyOrder(fs, sh, feature_id) ==
    IF LoadRaises(sh) THEN AttributeError
    ELSE IF ~InLedger(fs, feature_id) THEN NotFound(feature_id)
    ELSE LET target  == fs[LookupIndex(fs, feature_id)]
             missing == MissingDeps(fs, DepIds(target.dependencies))
         IN  [can_implement |-> Len(missing) = 0,
              missing_dependencies |-> missing,
              blocked_by |-> missing]

\* if feature_id in dep_ids
\* mutant: a typed edge is not read as naming its target
NamesDepBareOnly(f, feature_id) ==
    \E j \in 1..Len(f.dependencies) :
        ~IsDict(f.dependencies[j]) /\ f.dependencies[j].bare = feature_id

NamesDep(f, feature_id) == feature_id \in Range(DepIds(f.dependencies))

\* the ids of the records, in ledger order, whose own dependency list names feature_id
RECURSIVE DependentsFrom(_, _, _)
DependentsFrom(fs, feature_id, i) ==
    IF i > Len(fs) THEN <<>>
    ELSE (IF NamesDep(fs[i], feature_id) THEN <<fs[i].id>> ELSE <<>>)
         \o DependentsFrom(fs, feature_id, i + 1)

GetDependentFeatures(fs, sh, feature_id) ==
    IF LoadRaises(sh) THEN AttributeError
    ELSE [value |-> DependentsFrom(fs, feature_id, 1)]

\* dep_graph[fid] = [DepId(d) for d in deps], a later record of the same id winning
DepGraph(fs) ==
    [id \in {fs[i].id : i \in 1..Len(fs)} |-> DepIds(fs[LookupIndex(fs, id)].dependencies)]

\* dep_graph.get(dep, [])
GraphGet(dep_graph, dep) == IF dep \in DOMAIN dep_graph THEN dep_graph[dep] ELSE <<>>

\* to_visit.pop(): the last element leaves the list
Popped(to_visit) == SubSeq(to_visit, 1, Len(to_visit) - 1)
Last(to_visit) == to_visit[Len(to_visit)]

\* mutant: the visited test is dropped, every popped id is expanded
NotVisitedAlways(dep, visited) == TRUE

\* if dep not in visited
NotVisited(dep, visited) == dep \notin visited

\* mutant: the walk stops at the direct dependencies
ExpansionNone(dep_graph, dep) == <<>>

\* the list to_visit.extend(...) appends for a newly visited id
Expansion(dep_graph, dep) == GraphGet(dep_graph, dep)

OpNone == [name |-> "none"]
WalkIdle == [pc |-> "idle"]
GateIdle == [phase |-> "none"]
SessionIdle == [pc |-> "idle"]
RunnerIdle == [pc |-> "idle"]
\* no test run has been persisted yet
NoFiles == [f \in {} |-> <<>>]
Fresh == test_results = NoFiles /\ now = 0

\* get_feature_dependencies up to the first test of the while loop.  to_visit is
\* dep_graph.get(feature_id, []): for a known id it is the very list stored in
\* dep_graph, so the loop's pop and extend act on dep_graph[feature_id] as well.
WalkEntry(fs, feature_id) ==
    [pc |-> "loop", feature_id |-> feature_id,
     dep_graph |-> DepGraph(fs),
     aliased |-> feature_id \in DOMAIN DepGraph(fs),
     to_visit |-> GraphGet(DepGraph(fs), feature_id),
     visited |-> {},
     expanded |-> <<>>]

\* one iteration of the while loop: pop, and expand the id when it is new
WalkBody(w) ==
    LET dep    == Last(w.to_visit)
        rest   == Popped(w.to_visit)
        graph1 == IF w.aliased
                  THEN [w.dep_graph EXCEPT ![w.feature_id] = rest]
                  ELSE w.dep_graph
    IN  IF NotVisited(dep, w.visited)
        THEN LET more == rest \o Expansion(graph1, dep)
             IN  [w EXCEPT
                     !.to_visit = more,
                     !.visited = w.visited \cup {dep},
                     !.expanded = Append(w.expanded, dep),
                     !.dep_graph = IF w.aliased
                                   THEN [graph1 EXCEPT ![w.feature_id] = more]
                                   ELSE graph1]
        ELSE [w EXCEPT !.to_visit = rest, !.dep_graph = graph1]

\* the while loop run to its end
RECURSIVE WalkLoop(_)
WalkLoop(w) == IF w.to_visit = <<>> THEN w ELSE WalkLoop(WalkBody(w))

\* get_feature_dependencies as one call; list(visited) is read as a set
GetFeatureDependencies(fs, sh, feature_id) ==
    IF LoadRaises(sh) THEN AttributeError
    ELSE [value |-> WalkLoop(WalkEntry(fs, feature_id)).visited]

WalkStart(feature_id) ==
    /\ walk.pc # "loop"
    /\ IF LoadRaises(shape)
       THEN /\ op' = [name |-> "get_feature_dependencies", arg |-> feature_id,
                      result |-> AttributeError]
            /\ walk' = WalkIdle
       ELSE /\ op' = OpNone
            /\ walk' = WalkEntry(features, feature_id)
    /\ UNCHANGED <<files, gate, launched, session, bench>>

WalkStep ==
    /\ walk.pc = "loop"
    /\ walk.to_visit # <<>>
    /\ walk' = WalkBody(walk)
    /\ UNCHANGED <<files, op, gate, launched, session, bench>>

\* the loop test fails: return list(visited)
WalkReturn ==
    /\ walk.pc = "loop"
    /\ walk.to_visit = <<>>
    /\ walk' = [walk EXCEPT !.pc = "done"]
    /\ op' = [name |-> "get_feature_dependencies", arg |-> walk.feature_id,
              result |-> [value |-> walk.visited]]
    /\ UNCHANGED <<files, gate, launched, session, bench>>

\* mutant: a validation once computed for a feature is kept and handed out again
ValidationMemoised(feature_id) ==
    IF /\ op.name \in {"validate_dependency_order", "earlier"}
       /\ op.arg = feature_id
       /\ op.name = "earlier" => op.was = "validate_dependency_order"
    THEN op.result
    ELSE ValidateDependencyOrder(features, shape, feature_id)

\* features_data = self.load_features(): the file is read at every call
Validation(feature_id) == ValidateDependencyOrder(features, shape, feature_id)

CallValidate(feature_id) ==
    /\ walk.pc # "loop"
    /\ op' = [name |-> "validate_dependency_order", arg |-> feature_id,
              result |-> Validation(feature_id)]
    /\ walk' = WalkIdle
    /\ gate' = GateIdle
    /\ launched' = <<>>
    /\ UNCHANGED <<files, session, bench>>

CallDependents(feature_id) ==
    /\ walk.pc # "loop"
    /\ op' = [name |-> "get_dependent_features", arg |-> feature_id,
              result |-> GetDependentFeatures(features, shape, feature_id)]
    /\ walk' = WalkIdle
    /\ gate' = GateIdle
    /\ launched' = <<>>
    /\ UNCHANGED <<files, session, bench>>

(***************************************************************************)
(* CompatibilityManager: interface contracts, report, recommendations.     *)
(***************************************************************************)
\* d.get(key, default) on a returned dict
GetOr(d, key, default) == IF key \in DOMAIN d THEN d[key] ELSE default

\* the issues one contract adds for feature_id: an obligation when it implements
\* the contract, else one dependency issue per implementer that fails validation
ContractIssues(fs, sh, contract, feature_id) ==
    IF feature_id \in Range(contract.implemented_by)
    THEN <<[contract |-> contract.name, type |-> "implements",
            required_methods |-> contract.methods]>>
    ELSE IF feature_id \in Range(contract.used_by)
    THEN LET failing == SelectSeq(contract.implemented_by,
                 LAMBDA impl : ~GetOr(ValidateDependencyOrder(fs, sh, impl),
                                      "can_implement", FALSE))
         IN  [i \in 1..Len(failing) |->
                 [contract |-> contract.name, type |-> "dependency",
                  message |-> <<"Interface", contract.name,
                                "is not yet implemented by", failing[i]>>]]
    ELSE <<>>

RECURSIVE AllIssues(_, _, _, _, _)
AllIssues(fs, sh, cs, feature_id, i) ==
    IF i > Len(cs) THEN <<>>
    ELSE ContractIssues(fs, sh, cs[i], feature_id) \o AllIssues(fs, sh, cs, feature_id, i + 1)

\* validate_dependency_order is reached, on a bare ledger, only for a consumer of
\* a contract that has implementers
InterfaceCheckRaises(sh, cs, feature_id) ==
    /\ LoadRaises(sh)
    /\ \E i \in 1..Len(cs) :
        /\ feature_id \notin Range(cs[i].implemented_by)
        /\ feature_id \in Range(cs[i].used_by)
        /\ cs[i].implemented_by # <<>>

CheckInterfaceCompatibility(fs, sh, cs, feature_id) ==
    IF InterfaceCheckRaises(sh, cs, feature_id) THEN AttributeError
    ELSE LET issues == AllIssues(fs, sh, cs, feature_id, 1)
         IN  [compatible |-> Len(SelectSeq(issues, LAMBDA x : x.type = "dependency")) = 0,
              contracts |-> issues]

\* mutant: every integration test of the file counts as related to the feature
GetIntegrationTestsUnfiltered(ts, feature_id) == ts

\* [t for t in tests if feature_id in t.features_tested]
GetIntegrationTestsForFeature(ts, feature_id) ==
    SelectSeq(ts, LAMBDA t : feature_id \in Range(t.features_tested))

\* a recommendation is a text; the model keeps the word it starts with and what it names
Recommendation(first, names) == [starts |-> first, names |-> names]
\* rec.startswith(word)
StartsWith(rec, word) == rec.starts = word

GenerateRecommendations(fs, sh, cs, ts, feature_id) ==
    IF LoadRaises(sh) THEN AttributeError ELSE
    LET dep_validation == ValidateDependencyOrder(fs, sh, feature_id)
        dependents     == DependentsFrom(fs, feature_id, 1)
        tests          == GetIntegrationTestsForFeature(ts, feature_id)
        issues         == CheckInterfaceCompatibility(fs, sh, cs, feature_id).contracts
        implemented    == SelectSeq(issues, LAMBDA x : x.type = "implements")
    IN  (IF ~GetOr(dep_validation, "can_implement", FALSE)
         THEN <<Recommendation("BLOCKED",
                               GetOr(dep_validation, "missing_dependencies", <<>>))>>
         ELSE <<>>)
        \o (IF dependents # <<>> THEN <<Recommendation("CAUTION", dependents)>> ELSE <<>>)
        \o (IF tests # <<>>
            THEN <<Recommendation("Run", [i \in 1..Len(tests) |-> tests[i].name])>>
            ELSE <<Recommendation("Consider", <<>>)>>)
        \o [i \in 1..Len(implemented) |->
               Recommendation("This", <<implemented[i].contract>>)]

\* generate_compatibility_report: its first call reads the ledger, so a bare ledger
\* raises before anything is computed
GenerateCompatibilityReport(fs, sh, cs, ts, feature_id) ==
    IF LoadRaises(sh) THEN AttributeError
    ELSE LET tests == GetIntegrationTestsForFeature(ts, feature_id)
         IN  [feature_id |-> feature_id,
              dependency_validation |-> ValidateDependencyOrder(fs, sh, feature_id),
              interface_compatibility |-> CheckInterfaceCompatibility(fs, sh, cs, feature_id),
              dependencies |-> GetFeatureDependencies(fs, sh, feature_id).value,
              dependents |-> DependentsFrom(fs, feature_id, 1),
              integration_tests |-> [i \in 1..Len(tests) |->
                  [id |-> tests[i].id, name |-> tests[i].name,
                   features |-> tests[i].features_tested]],
              recommendations |-> GenerateRecommendations(fs, sh, cs, ts, feature_id)]

(***************************************************************************)
(* IntegrationTestRunner.                                                  *)
(***************************************************************************)
\* timeout_seconds of the three tiers in the default configuration
SmokeTimeoutSeconds == 30
IntegrationTimeoutSeconds == 120
RegressionTimeoutSeconds == 300

\* what subprocess.run can do with a launched command
Exited(returncode, stderr) ==
    [kind |-> "exit", returncode |-> returncode, stderr |-> stderr, elapsed_ms |-> 5]
TimedOut == [kind |-> "timeout"]
Failed(text) == [kind |-> "exception", text |-> text]

\* f"Test timed out after {timeout} seconds"
TimeoutMessage(timeout) ==
    CASE timeout = SmokeTimeoutSeconds -> "Test timed out after 30 seconds"
      [] timeout = IntegrationTimeoutSeconds -> "Test timed out after 120 seconds"
      [] OTHER -> "Test timed out after 300 seconds"

\* an Optional[str]: None is the empty tuple
None == <<>>
Some(text) == <<text>>

\* mutant: a timeout is recorded with no duration
TimeoutDurationNone(timeout) == 0

\* duration = timeout * 1000
TimeoutDuration(timeout) == timeout * 1000

\* mutant: whatever the process wrote to stderr is kept, passed or not
ErrorMessageAlways(passed, stderr) == Some(stderr)

\* error_message=result.stderr if not passed else None
ErrorMessage(passed, stderr) == IF ~passed THEN Some(stderr) ELSE None

\* _run_single_test: the TestResult for one launched command
RunSingleTest(test_id, test_name, expected_exit_code, test_type, timeout, outcome) ==
    CASE outcome.kind = "exit" ->
            LET passed == outcome.returncode = expected_exit_code
            IN  [test_id |-> test_id, test_name |-> test_name, test_type |-> test_type,
                 passed |-> passed, duration_ms |-> outcome.elapsed_ms,
                 error_message |-> ErrorMessage(passed, outcome.stderr)]
      [] outcome.kind = "timeout" ->
            [test_id |-> test_id, test_name |-> test_name, test_type |-> test_type,
             passed |-> FALSE, duration_ms |-> TimeoutDuration(timeout),
             error_message |-> Some(TimeoutMessage(timeout))]
      [] OTHER ->
            [test_id |-> test_id, test_name |-> test_name, test_type |-> test_type,
             passed |-> FALSE, duration_ms |-> 0,
             error_message |-> Some(outcome.text)]

\* mutant: an empty list of results does not count as passed
AllPassedSome(results) == results # <<>> /\ \A i \in 1..Len(results) : results[i].passed

\* all(r.passed for r in results)
AllPassed(results) == \A i \in 1..Len(results) : results[i].passed

\* a runner call returns its results; it launched commands and wrote batches on the way
Ran(results, commands, saves) ==
    [results |-> results, commands |-> commands, saves |-> saves]

\* the list _save_results hands to json.dump (the timestamp field of a result, the
\* instant the result was built, is left out)
Batch(results) ==
    [i \in 1..Len(results) |->
        [test_id |-> results[i].test_id, test_name |-> results[i].test_name,
         test_type |-> results[i].test_type, passed |-> results[i].passed,
         duration_ms |-> results[i].duration_ms,
         error_message |-> results[i].error_message]]

\* one call of _save_results, before the clock is read
Save(test_type, results) == [test_type |-> test_type, batch |-> Batch(results)]

\* f"{test_type}_{timestamp}.json", the timestamp being strftime("%Y%m%d_%H%M%S")
ResultFile(test_type, second) == <<test_type, second>>

\* _save_results at clock reading second: open(result_file, 'w') replaces a file of
\* that name
SaveResults(dir, save, second) ==
    [f \in DOMAIN dir \cup {ResultFile(save.test_type, second)} |->
        IF f = ResultFile(save.test_type, second) THEN save.batch ELSE dir[f]]

\* the saves of one call, in order, the k-th at clock reading seconds[k]
RECURSIVE Persist(_, _, _)
Persist(dir, saves, seconds) ==
    IF saves = <<>> THEN dir
    ELSE Persist(SaveResults(dir, saves[1], seconds[1]), Tail(saves), Tail(seconds))

\* test["id"] and test["name"] are subscripted: an entry without one raises KeyError
Malformed(test) == ~({"id", "name"} \subseteq DOMAIN test)
KeyError(commands) == [raised |-> "KeyError", commands |-> commands]

\* the command line of a smoke check
SmokeCommand(test) == [program |-> "smoke", id |-> test.id]

\* run_smoke_tests: one command per configured test, in order; the loop stops at the
\* first malformed entry, with nothing saved
RunSmokeTests(cfg, outcomes) ==
    IF ~cfg.smoke_tests.enabled THEN Ran(<<>>, <<>>, <<>>)
    ELSE LET tests == cfg.smoke_tests.tests
             bad   == {i \in 1..Len(tests) : Malformed(tests[i])}
         IN  IF bad # {}
             THEN LET first == CHOOSE i \in bad : \A j \in bad : i <= j
                  IN  KeyError([i \in 1..(first - 1) |-> SmokeCommand(tests[i])])
             ELSE LET res == [i \in 1..Len(tests) |->
                                RunSingleTest(tests[i].id, tests[i].name,
                                              GetOr(tests[i], "expected_exit_code", 0),
                                              "smoke", cfg.smoke_tests.timeout_seconds,
                                              outcomes[i])]
                  IN  Ran(res, [i \in 1..Len(tests) |-> SmokeCommand(tests[i])],
                          <<Save("smoke", res)>>)

\* the pytest command: -m '<markers>' is added for a non-empty list of feature ids
PytestCommand(feature_ids) ==
    [program |-> "pytest", filtered |-> feature_ids # <<>>,
     markers |-> [i \in 1..Len(feature_ids) |-> <<"feature_", feature_ids[i]>>]]

\* _run_pytest: one command, one result
RunPytest(test_type, timeout, feature_ids, outcome) ==
    Ran(<<RunSingleTest("PYTEST_RUN", "Pytest: integration", 0, test_type, timeout, outcome)>>,
        <<PytestCommand(feature_ids)>>, <<>>)

\* run_integration_tests
RunIntegrationTests(cfg, feature_ids, outcome) ==
    IF ~cfg.integration_tests.enabled THEN Ran(<<>>, <<>>, <<>>)
    ELSE LET ran == IF cfg.test_dir_exists
                    THEN RunPytest("integration", cfg.integration_tests.timeout_seconds,
                                   feature_ids, outcome)
                    ELSE Ran(<<>>, <<>>, <<>>)
         IN  Ran(ran.results, ran.commands, <<Save("integration", ran.results)>>)

\* mutant: the changed feature itself is left out of the scope
FeaturesToTestDependentsOnly(fs, changed_feature_id) ==
    DependentsFrom(fs, changed_feature_id, 1)

\* features_to_test = [changed_feature_id] + dependents
FeaturesToTest(fs, changed_feature_id) ==
    <<changed_feature_id>> \o DependentsFrom(fs, changed_feature_id, 1)

\* run_regression_tests: the integration tier scoped to the affected features
RunRegressionTests(cfg, fs, sh, changed_feature_id, outcome) ==
    IF ~cfg.regression_tests.enabled THEN Ran(<<>>, <<>>, <<>>)
    ELSE IF LoadRaises(sh) THEN AttributeError
    ELSE LET int == RunIntegrationTests(cfg, FeaturesToTest(fs, changed_feature_id), outcome)
         IN  Ran(int.results, int.commands, int.saves \o <<Save("regression", int.results)>>)

(***************************************************************************)
(* CodingAgent: the pre- and post-implementation checks.                   *)
(***************************************************************************)
\* the blocker for an unmet dependency validation
DependencyBlockers(dep_validation) ==
    IF ~GetOr(dep_validation, "can_implement", TRUE)
    THEN <<Recommendation("Missing", GetOr(dep_validation, "missing_dependencies", <<>>))>>
    ELSE <<>>

\* mutant: failed smoke tests are reported nowhere
SmokeBlockersNone(smoke_results) == <<>>

\* the blocker naming the smoke tests that failed
SmokeBlockers(smoke_results) ==
    IF ~AllPassed(smoke_results)
    THEN LET failed == SelectSeq(smoke_results, LAMBDA r : ~r.passed)
         IN  <<Recommendation("Smoke", [i \in 1..Len(failed) |-> failed[i].test_name])>>
    ELSE <<>>

\* mutant: an incompatible interface check blocks as well
GateBlockersStrict(report, smoke_results) ==
    DependencyBlockers(report.dependency_validation)
        \o SmokeBlockers(smoke_results)
        \o SelectSeq(report.recommendations, LAMBDA rec : StartsWith(rec, "BLOCKED"))
        \o (IF ~report.interface_compatibility.compatible
            THEN <<Recommendation("Interface", <<>>)>> ELSE <<>>)

\* blockers, in the order the check appends them
GateBlockers(report, smoke_results) ==
    DependencyBlockers(report.dependency_validation)
        \o SmokeBlockers(smoke_results)
        \o SelectSeq(report.recommendations, LAMBDA rec : StartsWith(rec, "BLOCKED"))

\* warnings, in the order the check appends them
GateWarnings(report) ==
    (IF report.dependents # <<>>
     THEN <<Recommendation("CAUTION", report.dependents)>> ELSE <<>>)
        \o SelectSeq(report.recommendations,
                     LAMBDA rec : ~StartsWith(rec, "BLOCKED") /\ StartsWith(rec, "CAUTION"))

\* _run_pre_implementation_checks; the report is generated before any smoke test runs
RunPreImplementationChecks(fs, sh, cs, ts, cfg, feature_id, outcomes) ==
    LET compat_report == GenerateCompatibilityReport(fs, sh, cs, ts, feature_id)
    IN  IF Raised(compat_report) THEN AttributeError
        ELSE IF Raised(RunSmokeTests(cfg, outcomes)) THEN RunSmokeTests(cfg, outcomes)
        ELSE LET smoke_results == RunSmokeTests(cfg, outcomes).results
                 blockers      == GateBlockers(compat_report, smoke_results)
             IN  [can_proceed |-> Len(blockers) = 0,
                  compatibility_report |-> compat_report,
                  smoke_test_results |-> [i \in 1..Len(smoke_results) |->
                      [name |-> smoke_results[i].test_name,
                       passed |-> smoke_results[i].passed]],
                  warnings |-> GateWarnings(compat_report),
                  blockers |-> blockers]

\* mutant: the regression results do not enter the decision
PostDecisionIntegrationOnly(int_results, reg_results) == AllPassed(int_results)

\* all_passed
PostDecision(int_results, reg_results) == AllPassed(int_results) /\ AllPassed(reg_results)

Summaries(results) ==
    [i \in 1..Len(results) |->
        [name |-> results[i].test_name, passed |-> results[i].passed,
         error |-> results[i].error_message]]

\* _run_post_implementation_tests: the integration tier for the feature, then the
\* regression tier, which raises on a bare ledger when it is enabled
RunPostImplementationTests(cfg, fs, sh, feature_id, int_outcome, reg_outcome) ==
    LET int == RunIntegrationTests(cfg, <<feature_id>>, int_outcome)
        reg == RunRegressionTests(cfg, fs, sh, feature_id, reg_outcome)
    IN  IF Raised(reg) THEN AttributeError
        ELSE [all_passed |-> PostDecision(int.results, reg.results),
              integration_tests |-> Summaries(int.results),
              regression_tests |-> Summaries(reg.results)]

\* the outcomes of the commands a call launched, in launch order
Seen(launches) ==
    LET ran == SelectSeq(launches, LAMBDA l : l.commands # <<>>)
    IN  [i \in 1..Len(ran) |-> ran[i].outcome]

\* the process outcomes the gate specifications draw from
GateOutcomes == {Exited(0, ""), Exited(1, "boom"), TimedOut}

\* the clock readings of n saves of one call: the first at now, and between two saves
\* the second may or may not have changed
Clocks(n) ==
    {t \in [1..n -> now..(now + n)] :
        /\ n > 0 => t[1] = now
        /\ \A k \in 1..(n - 1) : t[k + 1] - t[k] \in {0, 1}}

\* the clock after saves at the readings t
Later(t) == IF t = <<>> THEN now ELSE t[Len(t)]

PreCheck(feature_id) ==
    /\ walk.pc # "loop"
    /\ \E outcomes \in [1..Len(config.smoke_tests.tests) -> GateOutcomes] :
        LET r     == RunPreImplementationChecks(features, shape, contracts, itests,
                                                config, feature_id, outcomes)
            smoke == RunSmokeTests(config, outcomes)
            ran   == r # AttributeError
        IN  /\ gate' = [phase |-> "pre", arg |-> feature_id, result |-> r,
                        outcomes |-> IF ran THEN SubSeq(outcomes, 1, Len(smoke.commands))
                                     ELSE <<>>]
            /\ launched' = IF ran THEN smoke.commands ELSE <<>>
            /\ test_results' = IF Raised(r) THEN test_results
                          ELSE Persist(test_results, smoke.saves, [k \in 1..Len(smoke.saves) |-> now])
    /\ op' = OpNone
    /\ walk' = WalkIdle
    /\ UNCHANGED <<files, session, now, runner>>

\* mutant: a post-implementation check that passed marks the feature complete
LedgerAfterPostCheckMarks(fs, feature_id, result) ==
    IF ~Raised(result) /\ result.all_passed /\ InLedger(fs, feature_id)
    THEN [fs EXCEPT ![LookupIndex(fs, feature_id)].passes = TRUE]
    ELSE fs

\* features.json after _run_post_implementation_tests: the method reads the ledger
\* (through run_regression_tests) and has no write to it
LedgerAfterPostCheck(fs, feature_id, result) == fs

PostCheck(feature_id) ==
    /\ walk.pc # "loop"
    /\ \E o1 \in GateOutcomes, o2 \in GateOutcomes :
        LET r   == RunPostImplementationTests(config, features, shape, feature_id, o1, o2)
            int == RunIntegrationTests(config, <<feature_id>>, o1)
            reg == RunRegressionTests(config, features, shape, feature_id, o2)
            regCommands == IF Raised(reg) THEN <<>> ELSE reg.commands
            saves == int.saves \o (IF Raised(reg) THEN <<>> ELSE reg.saves)
        IN  /\ features' = LedgerAfterPostCheck(features, feature_id, r)
            /\ gate' = [phase |-> "post", arg |-> feature_id, result |-> r,
                        outcomes |-> Seen(<<[commands |-> int.commands, outcome |-> o1],
                                            [commands |-> regCommands, outcome |-> o2]>>)]
            /\ launched' = int.commands \o regCommands
            /\ \E t \in Clocks(Len(saves)) :
                /\ test_results' = Persist(test_results, saves, t)
                /\ now' = Later(t)
    /\ op' = OpNone
    /\ walk' = WalkIdle
    /\ UNCHANGED <<shape, contracts, itests, config, session, runner>>

CallRegression(changed_feature_id) ==
    /\ walk.pc # "loop"
    /\ \E o \in GateOutcomes :
        LET reg == RunRegressionTests(config, features, shape, changed_feature_id, o)
            commands == IF Raised(reg) THEN <<>> ELSE reg.commands
            saves    == IF Raised(reg) THEN <<>> ELSE reg.saves
        IN  /\ gate' = [phase |-> "regression", arg |-> changed_feature_id,
                        result |-> IF Raised(reg) THEN reg ELSE [value |-> reg.results],
                        outcomes |-> Seen(<<[commands |-> commands, outcome |-> o]>>)]
            /\ launched' = commands
            /\ \E t \in Clocks(Len(saves)) :
                /\ test_results' = Persist(test_results, saves, t)
                /\ now' = Later(t)
    /\ op' = OpNone
    /\ walk' = WalkIdle
    /\ UNCHANGED <<files, session, runner>>

(***************************************************************************)
(* CodingAgent.run: one session.                                           *)
(***************************************************************************)
\* x.get('priority', 5)
DefaultPriority == 5
\* mutant: a feature without a priority goes first
PriorityOfMissingFirst(f) == IF f.priority = None THEN 0 ELSE f.priority[1]

PriorityOf(f) == IF f.priority = None THEN DefaultPriority ELSE f.priority[1]

\* _load_features: a list is returned as it is, a dict through its features field
LoadFeatures(fs, sh) ==
    IF sh = "bare" THEN fs
    ELSE IF sh = "wrapped" THEN fs
    ELSE <<>>

\* list.sort(key=...): stable, so equal priorities keep their order
RECURSIVE SortByPriority(_)
SortByPriority(fs) ==
    IF fs = <<>> THEN <<>>
    ELSE LET least == CHOOSE i \in 1..Len(fs) :
                 /\ \A j \in 1..Len(fs) : PriorityOf(fs[i]) <= PriorityOf(fs[j])
                 /\ \A j \in 1..(i - 1) : PriorityOf(fs[j]) # PriorityOf(fs[i])
         IN  <<fs[least]>>
                \o SortByPriority(SubSeq(fs, 1, least - 1) \o SubSeq(fs, least + 1, Len(fs)))

\* _get_incomplete_features
GetIncompleteFeatures(fs, sh) ==
    SortByPriority(SelectSeq(LoadFeatures(fs, sh), LAMBDA f : ~f.passes))

\* _get_implementable_features: validate_dependency_order reads the ledger through
\* CompatibilityManager, which raises on a bare ledger at the first incomplete feature
GetImplementableFeatures(fs, sh) ==
    LET incomplete == GetIncompleteFeatures(fs, sh)
    IN  IF incomplete # <<>> /\ LoadRaises(sh) THEN AttributeError
        ELSE [value |-> SelectSeq(incomplete,
                  LAMBDA f : GetOr(ValidateDependencyOrder(fs, sh, f.id),
                                   "can_implement", TRUE))]

\* set(blocked_by) of the early return for a ledger with nothing implementable
BlockedBy(fs, sh, incomplete) ==
    UNION {LET validation == ValidateDependencyOrder(fs, sh, incomplete[i].id)
           IN  IF ~GetOr(validation, "can_implement", FALSE)
               THEN Range(GetOr(validation, "missing_dependencies", <<>>))
               ELSE {}
           : i \in 1..Len(incomplete)}

\* the dict run returns
Result(success, session_id, features_completed, kind, reasons) ==
    [success |-> success, session_id |-> session_id,
     features_completed |-> features_completed,
     message |-> [kind |-> kind, reasons |-> reasons]]

\* mutant: the session goes on whatever the pre-implementation check said
ProceedsAlways(pre_check_results) == TRUE

\* not the early return of: if not pre_check_results.get("can_proceed")
Proceeds(pre_check_results) == pre_check_results.can_proceed

\* feature not in current_incomplete: the records are compared field by field
Completed(feature, current_incomplete, fs) == feature \notin Range(current_incomplete)

\* features_completed, in the order of the session's first reading of the ledger
FeaturesCompleted(incomplete, fs, sh) ==
    LET current_incomplete == GetIncompleteFeatures(fs, sh)
        done == SelectSeq(incomplete, LAMBDA f : Completed(f, current_incomplete, fs))
    IN  [i \in 1..Len(done) |-> done[i].id]

Returning(result, log) == [pc |-> "returned", result |-> result, log |-> log]

\* run, from its call to the await of the collaborator or to an earlier return
RunStart(session_id, project_exists, config_valid) ==
    /\ session.pc = "idle"
    /\ walk.pc # "loop"
    /\ \E outcomes \in [1..Len(config.smoke_tests.tests) -> GateOutcomes] :
        LET incomplete    == GetIncompleteFeatures(features, shape)
            implementable == GetImplementableFeatures(features, shape)
            next_feature  == implementable.value[1]
            pre   == RunPreImplementationChecks(features, shape, contracts, itests,
                                                config, next_feature.id, outcomes)
            smoke == RunSmokeTests(config, outcomes)
            checked == [event |-> "pre_check", feature_id |-> next_feature.id,
                        can_proceed |-> pre.can_proceed]
        IN  IF ~project_exists THEN
                /\ session' = Returning(Result(FALSE, None, <<>>, "Project not found", <<>>), <<>>)
                /\ gate' = GateIdle /\ launched' = <<>> /\ test_results' = test_results
            ELSE IF ~config_valid THEN
                /\ session' = Returning(Result(FALSE, session_id, <<>>,
                                               "Configuration errors", <<>>), <<>>)
                /\ gate' = GateIdle /\ launched' = <<>> /\ test_results' = test_results
            ELSE IF incomplete = <<>> THEN
                /\ session' = Returning(Result(TRUE, session_id, <<>>,
                                               "All features are complete", <<>>), <<>>)
                /\ gate' = GateIdle /\ launched' = <<>> /\ test_results' = test_results
            ELSE IF Raised(implementable) THEN
                /\ session' = [pc |-> "raised", log |-> <<>>]
                /\ gate' = GateIdle /\ launched' = <<>> /\ test_results' = test_results
            ELSE IF implementable.value = <<>> THEN
                /\ session' = Returning(Result(FALSE, session_id, <<>>,
                                  "All remaining features are blocked",
                                  BlockedBy(features, shape, incomplete)), <<>>)
                /\ gate' = GateIdle /\ launched' = <<>> /\ test_results' = test_results
            ELSE IF Raised(pre) THEN
                /\ session' = [pc |-> "raised", log |-> <<>>]
                /\ gate' = [phase |-> "pre", arg |-> next_feature.id, result |-> pre,
                            outcomes |-> SubSeq(outcomes, 1, Len(smoke.commands))]
                /\ launched' = smoke.commands
                /\ test_results' = test_results
            ELSE
                /\ gate' = [phase |-> "pre", arg |-> next_feature.id, result |-> pre,
                            outcomes |-> SubSeq(outcomes, 1, Len(smoke.commands))]
                /\ launched' = smoke.commands
                /\ test_results' = Persist(test_results, smoke.saves,
                                      [k \in 1..Len(smoke.saves) |-> now])
                /\ IF ~Proceeds(pre)
                   THEN session' = Returning(Result(FALSE, session_id, <<>>,
                                        "Cannot proceed - blockers", pre.blockers),
                                        <<checked>>)
                   ELSE session' = [pc |-> "query", session_id |-> session_id,
                                    new_session_id |-> None, incomplete |-> incomplete,
                                    next_feature |-> next_feature,
                                    log |-> <<checked, [event |-> "query",
                                                        feature_id |-> next_feature.id,
                                                        ledger |-> features]>>]
    /\ op' = OpNone
    /\ walk' = WalkIdle
    /\ UNCHANGED <<files, now, runner>>

\* the collaborator's init message carries the id of the conversation
QueryInit ==
    /\ session.pc = "query"
    /\ session.new_session_id = None
    /\ session' = [session EXCEPT !.new_session_id = Some("S1")]
    /\ UNCHANGED <<files, op, walk, gate, launched, bench>>

\* the collaborator follows step 7 of its prompt: it writes passes: true into features.json
QueryMarksPasses(i) ==
    /\ session.pc = "query"
    /\ i \in 1..Len(features)
    /\ ~features[i].passes
    /\ features' = [features EXCEPT ![i].passes = TRUE]
    /\ UNCHANGED <<shape, contracts, itests, config, op, walk, gate, launched, session, bench>>

\* the collaborator rewrites another field of the record it works on
QueryEditsRecord(i) ==
    /\ session.pc = "query"
    /\ i \in 1..Len(features)
    /\ features[i].id = session.next_feature.id
    /\ features[i].description = "d0"
    /\ features' = [features EXCEPT ![i].description = "d1"]
    /\ UNCHANGED <<shape, contracts, itests, config, op, walk, gate, launched, session, bench>>

\* the collaborator's stream ends: run reads the ledger again and returns
QueryEnds ==
    /\ session.pc = "query"
    /\ session' = Returning(
            Result(TRUE, session.new_session_id,
                   FeaturesCompleted(session.incomplete, features, shape),
                   "Session completed", <<>>),
            session.log)
    /\ UNCHANGED <<files, op, walk, gate, launched, bench>>

\* the collaborator's stream raises: the except branch returns
QueryRaises ==
    /\ session.pc = "query"
    /\ session' = Returning(
            Result(FALSE,
                   IF session.new_session_id # None THEN session.new_session_id
                   ELSE session.session_id,
                   <<>>, "Error during session", <<>>),
            session.log)
    /\ UNCHANGED <<files, op, walk, gate, launched, bench>>

\* the command line is run again: a new CodingAgent, a new call of run, with the files
\* as the session before left them
RunAgain ==
    /\ session.pc \in {"returned", "raised"}
    /\ session' = SessionIdle
    /\ gate' = GateIdle
    /\ launched' = <<>>
    /\ UNCHANGED <<files, op, walk, bench>>

(***************************************************************************)
(* run_smoke_tests, one launched process at a time.                        *)
(***************************************************************************)
\* mutant: a check that did not pass is launched again
NextCheckRetry(index, result) == IF result.passed THEN index + 1 ELSE index

\* the for-loop moves on to the next configured check whatever the result
NextCheck(index, result) == index + 1

\* run_smoke_tests up to its loop: a disabled tier returns at once
SmokeStart ==
    /\ runner.pc = "idle"
    /\ walk.pc # "loop"
    /\ runner' = IF ~config.smoke_tests.enabled
                 THEN [pc |-> "returned", value |-> <<>>, tests |-> <<>>,
                       launches |-> <<>>, outcomes |-> <<>>]
                 ELSE [pc |-> "loop", tests |-> config.smoke_tests.tests, index |-> 1,
                       running |-> FALSE, results |-> <<>>,
                       launches |-> <<>>, outcomes |-> <<>>]
    /\ launched' = <<>>
    /\ op' = OpNone
    /\ walk' = WalkIdle
    /\ gate' = GateIdle
    /\ UNCHANGED <<files, session, test_results, now>>

\* the loop reads the next entry and calls subprocess.run; an entry without id or
\* name raises KeyError out of run_smoke_tests
SmokeLaunch ==
    /\ runner.pc = "loop"
    /\ ~runner.running
    /\ runner.index <= Len(runner.tests)
    /\ IF Malformed(runner.tests[runner.index])
       THEN /\ runner' = [pc |-> "raised", raised |-> "KeyError", tests |-> runner.tests,
                          results |-> runner.results, launches |-> runner.launches,
                          outcomes |-> runner.outcomes]
            /\ UNCHANGED launched
       ELSE /\ runner' = [runner EXCEPT !.running = TRUE,
                                        !.launches = Append(@, runner.index)]
            /\ launched' = Append(launched, SmokeCommand(runner.tests[runner.index]))
    /\ UNCHANGED <<files, op, walk, gate, session, test_results, now>>

\* subprocess.run comes back, by return or by exception: one TestResult is appended
SmokeComplete(outcome) ==
    /\ runner.pc = "loop"
    /\ runner.running
    /\ LET test   == runner.tests[runner.index]
           result == RunSingleTest(test.id, test.name,
                                   GetOr(test, "expected_exit_code", 0), "smoke",
                                   config.smoke_tests.timeout_seconds, outcome)
       IN  runner' = [runner EXCEPT !.running = FALSE,
                                    !.results = Append(@, result),
                                    !.outcomes = Append(@, outcome),
                                    !.index = NextCheck(runner.index, result)]
    /\ UNCHANGED <<files, op, walk, gate, launched, session, test_results, now>>

\* the loop is over: _save_results, then return results
SmokeSave ==
    /\ runner.pc = "loop"
    /\ ~runner.running
    /\ runner.index > Len(runner.tests)
    /\ test_results' = SaveResults(test_results, Save("smoke", runner.results), now)
    /\ runner' = [pc |-> "returned", value |-> runner.results, tests |-> runner.tests,
                  launches |-> runner.launches, outcomes |-> runner.outcomes]
    /\ UNCHANGED <<files, op, walk, gate, launched, session, now>>

\* one call of generate_compatibility_report
CallCompatibilityReport(feature_id) ==
    /\ walk.pc # "loop"
    /\ op' = [name |-> "generate_compatibility_report", arg |-> feature_id,
              result |-> GenerateCompatibilityReport(features, shape, contracts, itests,
                                                     feature_id)]
    /\ walk' = WalkIdle
    /\ gate' = GateIdle
    /\ launched' = <<>>
    /\ UNCHANGED <<files, session, bench>>

\* features.json is rewritten between two calls with one more feature at passes = true;
\* what the last call returned is from then on a value computed earlier
EditPasses(i) ==
    /\ i \in 1..Len(features)
    /\ ~features[i].passes
    /\ features' = [features EXCEPT ![i].passes = TRUE]
    /\ op' = IF op.name \in {"none", "earlier"} THEN op
             ELSE [name |-> "earlier", was |-> op.name, arg |-> op.arg,
                   result |-> op.result]
    /\ UNCHANGED <<shape, contracts, itests, config, walk, gate, launched, session, bench>>

\* one call of check_interface_compatibility
CallInterfaceCheck(feature_id) ==
    /\ walk.pc # "loop"
    /\ op' = [name |-> "check_interface_compatibility", arg |-> feature_id,
              result |-> CheckInterfaceCompatibility(features, shape, contracts, feature_id)]
    /\ walk' = WalkIdle
    /\ gate' = GateIdle
    /\ launched' = <<>>
    /\ UNCHANGED <<files, session, bench>>

(***************************************************************************)
(* IntegrationTestRunner: the tiers called on their own, the clock, and    *)
(* generate_test_report.                                                   *)
(***************************************************************************)
\* sorted(...)[:10]
ReportLimit == 10
\* [...][:5]
FailureLimit == 5

\* file names are compared as strings: the tier name comes first, and two names of
\* one tier differ in the timestamp, whose digits sort as the time does
TierRank(test_type) ==
    CASE test_type = "integration" -> 1
      [] test_type = "regression" -> 2
      [] OTHER -> 3

\* the name f sorts after the name g
SortsAfter(f, g) ==
    \/ TierRank(f[1]) > TierRank(g[1])
    \/ f[1] = g[1] /\ f[2] > g[2]

\* sorted(names, reverse=True)
RECURSIVE SortedReverse(_)
SortedReverse(names) ==
    IF names = {} THEN <<>>
    ELSE LET top == CHOOSE f \in names : \A g \in names \ {f} : SortsAfter(f, g)
         IN  <<top>> \o SortedReverse(names \ {top})

\* s[:n]
Take(s, n) == SubSeq(s, 1, IF Len(s) < n THEN Len(s) ELSE n)

\* result_files = sorted(self.results_path.glob("*.json"), reverse=True)[:10]
ResultFiles(dir) == Take(SortedReverse(DOMAIN dir), ReportLimit)

\* all_results: the batches of the files read, one after the other
RECURSIVE AllResults(_, _)
AllResults(dir, result_files) ==
    IF result_files = <<>> THEN <<>>
    ELSE dir[result_files[1]] \o AllResults(dir, Tail(result_files))

\* f"{passed/len(all_results)*100:.1f}%": tenths of a percent, a tie going to the even
\* digit
PassRate(passed, total) ==
    IF total = 0 THEN "N/A"
    ELSE LET q == (passed * 1000) \div total
             r == (passed * 1000) % total
         IN  [tenths |-> IF 2 * r < total THEN q
                         ELSE IF 2 * r > total THEN q + 1
                         ELSE IF q % 2 = 0 THEN q ELSE q + 1]

\* generate_test_report
GenerateTestReport(dir) ==
    IF dir = NoFiles THEN [message |-> "No test results found"]
    ELSE LET all_results == AllResults(dir, ResultFiles(dir))
             failures    == SelectSeq(all_results, LAMBDA r : ~r.passed)
             passed      == Len(all_results) - Len(failures)
         IN  [total_tests |-> Len(all_results),
              passed |-> passed,
              failed |-> Len(failures),
              pass_rate |-> PassRate(passed, Len(all_results)),
              recent_failures |-> Take(failures, FailureLimit)]

\* one call of generate_test_report
CallReport ==
    /\ walk.pc # "loop"
    /\ op' = [name |-> "generate_test_report", arg |-> "",
              result |-> GenerateTestReport(test_results)]
    /\ walk' = WalkIdle
    /\ gate' = GateIdle
    /\ launched' = <<>>
    /\ UNCHANGED <<files, session, bench>>

\* one call of run_smoke_tests, its save at the clock reading now
TierSmoke(outcomes) ==
    LET r == RunSmokeTests(config, outcomes)
    IN  /\ walk.pc # "loop"
        /\ op' = [name |-> "run_smoke_tests", arg |-> "",
                  result |-> IF Raised(r) THEN r ELSE [value |-> r.results]]
        /\ launched' = r.commands
        /\ test_results' = IF Raised(r) THEN test_results
                           ELSE Persist(test_results, r.saves,
                                        [k \in 1..Len(r.saves) |-> now])
        /\ walk' = WalkIdle
        /\ gate' = GateIdle
        /\ UNCHANGED <<files, session, now, runner>>

\* one call of run_integration_tests(), its save at the clock reading now
TierIntegration(outcome) ==
    LET r == RunIntegrationTests(config, <<>>, outcome)
    IN  /\ walk.pc # "loop"
        /\ op' = [name |-> "run_integration_tests", arg |-> "",
                  result |-> [value |-> r.results]]
        /\ launched' = r.commands
        /\ test_results' = Persist(test_results, r.saves,
                                   [k \in 1..Len(r.saves) |-> now])
        /\ walk' = WalkIdle
        /\ gate' = GateIdle
        /\ UNCHANGED <<files, session, now, runner>>

\* datetime.now() reads a later second
Tick ==
    /\ now' = now + 1
    /\ UNCHANGED <<files, op, walk, gate, launched, session, test_results, runner>>

(***************************************************************************)
(* Ledgers the specifications start from.                                  *)
(***************************************************************************)
Edges(kinds) ==
    {BareEdge(id) : id \in IdSet}
        \cup {TypedEdge(id, t) : id \in IdSet, t \in kinds}

\* which feature declares the j-th edge: edges are dealt out in ledger order
Owners(k, n) == {o \in [1..k -> 1..n] : \A j \in 1..(k - 1) : o[j] <= o[j + 1]}

DepsOf(es, o, i) ==
    LET mine == {j \in 1..Len(es) : o[j] = i}
    IN  IF mine = {} THEN <<>>
        ELSE LET first == CHOOSE j \in mine : \A m \in mine : j <= m
             IN  [m \in 1..Cardinality(mine) |-> es[first + m - 1]]

Feature(i, passes, deps) ==
    [id |-> AllIds[i], description |-> "d0", priority |-> <<>>,
     passes |-> passes, dependencies |-> deps]

\* every ledger of n features declaring at most maxEdges edges over IdSet
Ledgers(maxEdges, kinds, passSet) ==
    UNION {UNION {
        {[i \in 1..n |-> Feature(i, ps[i], DepsOf(es, o, i))] :
            es \in [1..k -> Edges(kinds)], o \in Owners(k, n), ps \in [1..n -> passSet]}
        : k \in 0..maxEdges} : n \in LedgerSizes}

\* the smoke checks a configuration lists: the two of the default configuration first
SmokeTable ==
    <<[id |-> "SMOKE001", name |-> "Project builds successfully", expected_exit_code |-> 0],
      [id |-> "SMOKE002", name |-> "Core dependencies available", expected_exit_code |-> 0],
      [id |-> "SMOKE003", name |-> "Service answers", expected_exit_code |-> 0],
      [id |-> "SMOKE004", name |-> "Database reachable", expected_exit_code |-> 0]>>

\* a test_config.json with the default timeouts
Config(smokeEnabled, smokeCount, intEnabled, dirExists, regEnabled) ==
    [smoke_tests |-> [enabled |-> smokeEnabled, timeout_seconds |-> SmokeTimeoutSeconds,
                      tests |-> SubSeq(SmokeTable, 1, smokeCount)],
     integration_tests |-> [enabled |-> intEnabled,
                            timeout_seconds |-> IntegrationTimeoutSeconds],
     regression_tests |-> [enabled |-> regEnabled,
                           timeout_seconds |-> RegressionTimeoutSeconds],
     test_dir_exists |-> dirExists]

\* what _create_default_config writes, in a project without a tests/integration directory
NoConfig == Config(TRUE, 2, TRUE, FALSE, TRUE)

\* smoke configurations: enabled with 0..MaxSmoke checks, or disabled
SmokeConfigs ==
    {Config(TRUE, k, TRUE, TRUE, TRUE) : k \in 0..MaxSmoke}
        \cup {Config(FALSE, MaxSmoke, TRUE, TRUE, TRUE)}

\* integration and regression configurations
TierConfigs ==
    {Config(TRUE, 0, i, d, r) : i \in BOOLEAN, d \in BOOLEAN, r \in BOOLEAN}

Contract(name, implemented_by, used_by) ==
    [name |-> name, methods |-> <<"get", "put">>,
     implemented_by |-> implemented_by, used_by |-> used_by]

\* contract ledgers: none, or one contract with an implementer and a consumer
ContractLedgers ==
    {<<>>,
     <<Contract("IStore", <<AllIds[1]>>, <<AllIds[2]>>)>>,
     <<Contract("IStore", <<AllIds[2]>>, <<AllIds[3]>>)>>}

\* one integration test, covering the first two features
TestLedger ==
    <<[id |-> "IT001", name |-> "store round trip",
       features_tested |-> <<AllIds[1], AllIds[2]>>]>>

(***************************************************************************)
(* SpecGraph: dependency validation and reverse lookup on every ledger.    *)
(***************************************************************************)
\* op and gate hold the return value of the last call alone; before the first call
\* of a behaviour they hold nothing
Quiet ==
    /\ op = OpNone
    /\ walk = WalkIdle
    /\ gate = GateIdle
    /\ launched = <<>>
    /\ session = SessionIdle
    /\ runner = RunnerIdle

\* a features.json in either shape: the bare shape on the smallest ledgers only
LedgerInit(maxEdges, kinds, passSet) ==
    \/ /\ shape = "wrapped"
       /\ features \in Ledgers(maxEdges, kinds, passSet)
    \/ /\ shape = "bare"
       /\ features \in Ledgers(1, {}, passSet)

InitGraph ==
    /\ LedgerInit(MaxGraphEdges, {"soft"}, BOOLEAN)
    /\ contracts = <<>>
    /\ itests = <<>>
    /\ config = NoConfig
    /\ Quiet
    /\ Fresh

NextGraph ==
    \E feature_id \in IdSet :
        \/ CallValidate(feature_id)
        \/ CallDependents(feature_id)

SpecGraph == InitGraph /\ [][NextGraph]_vars

(***************************************************************************)
(* SpecWalk: the work-list walk of get_feature_dependencies, step by step. *)
(***************************************************************************)
InitWalk ==
    /\ LedgerInit(MaxEdges, {"soft"}, {FALSE})
    /\ contracts = <<>>
    /\ itests = <<>>
    /\ config = NoConfig
    /\ Quiet
    /\ Fresh

NextWalk ==
    \/ \E feature_id \in IdSet : WalkStart(feature_id)
    \/ WalkStep
    \/ WalkReturn

SpecWalk == InitWalk /\ [][NextWalk]_vars

FairWalk == SpecWalk /\ WF_vars(WalkStep) /\ WF_vars(WalkReturn)

(***************************************************************************)
(* SpecGate: the pre-implementation check on every ledger, contract ledger *)
(* and smoke outcome.                                                      *)
(***************************************************************************)
InitGate ==
    /\ LedgerInit(MaxGateEdges, {}, BOOLEAN)
    /\ contracts \in ContractLedgers
    /\ itests = TestLedger
    /\ config \in SmokeConfigs
    /\ Quiet
    /\ Fresh

\* a check reads the files alone, so one call per behaviour shows all it can return
NextGate ==
    \E feature_id \in IdSet :
        \/ Quiet /\ CallValidate(feature_id)
        \/ Quiet /\ PreCheck(feature_id)

SpecGate == InitGate /\ [][NextGate]_vars

(***************************************************************************)
(* SpecPost: the post-implementation check and the regression tier.        *)
(***************************************************************************)
InitPost ==
    /\ LedgerInit(MaxGraphEdges, {"soft"}, {FALSE})
    /\ contracts = <<>>
    /\ itests = TestLedger
    /\ config \in TierConfigs
    /\ Quiet
    /\ Fresh

NextPost ==
    \E feature_id \in IdSet :
        \/ Quiet /\ PostCheck(feature_id)
        \/ Quiet /\ CallRegression(feature_id)

SpecPost == InitPost /\ [][NextPost]_vars

(***************************************************************************)
(* SpecSession: one session of CodingAgent.run on every ledger, with the   *)
(* collaborator writing to features.json while run awaits it.              *)
(***************************************************************************)
\* the ledgers of the sessions: at most MaxGateEdges edges, the last feature
\* optionally given a priority ahead of the default
SessionLedgers ==
    LET plain == Ledgers(MaxGateEdges, {}, BOOLEAN)
    IN  plain \cup {[l EXCEPT ![Len(l)].priority = <<1>>] : l \in plain}

InitSession ==
    /\ \/ shape = "wrapped" /\ features \in SessionLedgers
       \/ shape = "bare" /\ features \in Ledgers(0, {}, BOOLEAN)
    /\ contracts = <<>>
    /\ itests = TestLedger
    /\ config \in SmokeConfigs
    /\ Quiet
    /\ Fresh

NextSession ==
    \/ \E session_id \in {None, Some("S0")}, project_exists \in BOOLEAN,
          config_valid \in BOOLEAN :
            RunStart(session_id, project_exists, config_valid)
    \/ QueryInit
    \/ \E i \in 1..Len(AllIds) : QueryMarksPasses(i)
    \/ \E i \in 1..Len(AllIds) : QueryEditsRecord(i)
    \/ QueryEnds
    \/ QueryRaises

SpecSession == InitSession /\ [][NextSession]_vars

(***************************************************************************)
(* SpecContracts: the interface check on every ledger and contract file.   *)
(***************************************************************************)
\* implemented_by lists: up to MaxImplementers ids, repeats included
ImplementerLists == UNION {[1..k -> IdSet] : k \in 0..MaxImplementers}
\* used_by lists: no consumer or one
ConsumerLists == {<<>>} \cup {<<id>> : id \in IdSet}

\* interface_contracts.json: one contract, alone or followed by a second one
ContractFiles ==
    LET first == {Contract("IStore", impl, used) :
                      impl \in ImplementerLists, used \in ConsumerLists}
    IN  {<<>>} \cup {<<c>> : c \in first}
            \cup {<<c, Contract("IQueue", <<AllIds[3]>>, <<AllIds[1]>>)>> : c \in first}

InitContracts ==
    /\ LedgerInit(MaxGateEdges, {}, BOOLEAN)
    /\ contracts \in ContractFiles
    /\ itests = <<>>
    /\ config = NoConfig
    /\ Quiet
    /\ Fresh

NextContracts == \E feature_id \in IdSet : Quiet /\ CallInterfaceCheck(feature_id)

SpecContracts == InitContracts /\ [][NextContracts]_vars

(***************************************************************************)
(* SpecRunner: the smoke tier on every configuration, for every way its    *)
(* processes can end.                                                      *)
(***************************************************************************)
\* entries of smoke_tests.tests: as the default configuration writes them, without
\* expected_exit_code, expecting the exit code 1, and without a name
CheckEntries ==
    {SmokeTable[1],
     [id |-> "SMOKE002", name |-> "Core dependencies available"],
     [id |-> "SMOKE003", name |-> "Service answers", expected_exit_code |-> 1],
     [id |-> "SMOKE004"]}

\* test_config.json files: up to MaxChecks checks, one of two timeouts
RunnerConfigs ==
    {[Config(e, 0, TRUE, FALSE, TRUE) EXCEPT !.smoke_tests.tests = tests,
                                             !.smoke_tests.timeout_seconds = timeout] :
        e \in BOOLEAN,
        tests \in UNION {[1..k -> CheckEntries] : k \in 0..MaxChecks},
        timeout \in {SmokeTimeoutSeconds, IntegrationTimeoutSeconds}}

\* how a launched process can end: exit codes with and without text on stderr, no
\* exit before the timeout, and subprocess.run failing to start it
RunnerOutcomes ==
    {Exited(0, ""), Exited(0, "warning"), Exited(1, ""), Exited(1, "boom"),
     TimedOut, Failed("[Errno 2] No such file or directory")}

InitRunner ==
    /\ shape = "wrapped"
    /\ features = <<>>
    /\ contracts = <<>>
    /\ itests = <<>>
    /\ config \in RunnerConfigs
    /\ Quiet
    /\ Fresh

NextRunner ==
    \/ SmokeStart
    \/ SmokeLaunch
    \/ \E outcome \in RunnerOutcomes : SmokeComplete(outcome)
    \/ SmokeSave

SpecRunner == InitRunner /\ [][NextRunner]_vars

\* a launched process ends, one way or another, and the loop goes on
FairRunner ==
    /\ SpecRunner
    /\ WF_vars(SmokeLaunch)
    /\ WF_vars(\E outcome \in RunnerOutcomes : SmokeComplete(outcome))
    /\ WF_vars(SmokeSave)

(***************************************************************************)
(* SpecLedger: validations and reports, with the ledger rewritten between  *)
(* them.                                                                   *)
(***************************************************************************)
InitLedger ==
    /\ LedgerInit(MaxGraphEdges, {"soft"}, {FALSE})
    /\ contracts = <<>>
    /\ itests = TestLedger
    /\ config = NoConfig
    /\ Quiet
    /\ Fresh

NextLedger ==
    \/ \E feature_id \in IdSet : CallValidate(feature_id)
    \/ \E feature_id \in IdSet : CallCompatibilityReport(feature_id)
    \/ \E i \in 1..Len(AllIds) : EditPasses(i)

SpecLedger == InitLedger /\ [][NextLedger]_vars

(***************************************************************************)
(* SpecLog: tier runs one after the other, while the clock goes on or not. *)
(***************************************************************************)
\* the last second of the clock
MaxLogClock == 1

\* a process passes or fails
LogOutcomes == {Exited(0, ""), Exited(1, "boom")}

\* two features, the second depending on the first
LogLedger == <<Feature(1, TRUE, <<>>), Feature(2, FALSE, <<BareEdge(AllIds[1])>>)>>

InitLog ==
    /\ shape = "wrapped"
    /\ features = LogLedger
    /\ contracts = <<>>
    /\ itests = <<>>
    /\ config = Config(TRUE, 1, TRUE, TRUE, TRUE)
    /\ Quiet
    /\ Fresh

NextLog ==
    \/ \E outcome \in LogOutcomes : TierSmoke(<<outcome>>)
    \/ \E outcome \in LogOutcomes : TierIntegration(outcome)
    \/ \E feature_id \in IdSet : CallRegression(feature_id) /\ now' <= MaxLogClock
    \/ now < MaxLogClock /\ Tick

SpecLog == InitLog /\ [][NextLog]_vars

(***************************************************************************)
(* SpecReport: tier runs a second or more apart, and the report over what  *)
(* they left.                                                              *)
(***************************************************************************)
\* the last second of the clock
MaxReportClock == 11
\* the pytest tiers run at most this often
MaxPytestRuns == 1

\* a tier run has written a batch in this second
Written == \E f \in DOMAIN test_results : f[2] = now

\* the batches of a tier
BatchesOf(test_type) == {f \in DOMAIN test_results : f[1] = test_type}

InitReport ==
    /\ shape = "wrapped"
    /\ features = LogLedger
    /\ contracts = <<>>
    /\ itests = <<>>
    /\ config = Config(TRUE, 1, TRUE, TRUE, TRUE)
    /\ Quiet
    /\ Fresh

NextReport ==
    \/ ~Written /\ TierSmoke(<<Exited(0, "")>>)
    \/ /\ ~Written
       /\ Cardinality(BatchesOf("integration")) < MaxPytestRuns
       /\ \E outcome \in LogOutcomes : TierIntegration(outcome)
    \/ /\ ~Written
       /\ Cardinality(BatchesOf("integration")) < MaxPytestRuns
       /\ CallRegression(AllIds[1])
       /\ now' = now
    \/ Written /\ now < MaxReportClock /\ Tick
    \/ CallReport

SpecReport == InitReport /\ [][NextReport]_vars

(***************************************************************************)
(* SpecChecks: the checks, the reports and the tier runs in any order and   *)
(* within one second of the clock, with the ledger rewritten between them. *)
(***************************************************************************)
\* the two features of LogLedger, both incomplete
ChecksLedger == [i \in 1..Len(LogLedger) |-> [LogLedger[i] EXCEPT !.passes = FALSE]]

InitChecks ==
    /\ shape = "wrapped"
    /\ features = ChecksLedger
    /\ contracts = <<>>
    /\ itests = TestLedger
    /\ config = Config(TRUE, 1, TRUE, TRUE, TRUE)
    /\ Quiet
    /\ Fresh

NextChecks ==
    \/ \E feature_id \in IdSet : PreCheck(feature_id)
    \/ \E feature_id \in IdSet : PostCheck(feature_id) /\ now' = now
    \/ \E feature_id \in IdSet : CallRegression(feature_id) /\ now' = now
    \/ \E feature_id \in IdSet : CallCompatibilityReport(feature_id)
    \/ CallReport
    \/ \E outcome \in LogOutcomes : TierSmoke(<<outcome>>)
    \/ \E outcome \in LogOutcomes : TierIntegration(outcome)
    \/ \E i \in 1..Len(AllIds) : EditPasses(i)

SpecChecks == InitChecks /\ [][NextChecks]_vars

(***************************************************************************)
(* SpecAdvice: compatibility reports over ledgers, contracts and           *)
(* integration tests.                                                      *)
(***************************************************************************)
\* interface_contracts.json: no contract; one contract with an implementer and a
\* consumer; two contracts the first feature implements, the second of which it also
\* uses
AdviceContracts ==
    {<<>>,
     <<Contract("IStore", <<AllIds[1]>>, <<AllIds[2]>>)>>,
     <<Contract("IStore", <<AllIds[1], AllIds[2]>>, <<AllIds[3]>>),
       Contract("IQueue", <<AllIds[1]>>, <<AllIds[1]>>)>>}

\* integration_tests.json: no test, one test, or two tests of which both cover the
\* first feature
AdviceTests ==
    {<<>>,
     TestLedger,
     TestLedger \o <<[id |-> "IT002", name |-> "queue drains",
                      features_tested |-> <<AllIds[1]>>]>>}

InitAdvice ==
    /\ LedgerInit(MaxGateEdges, {"soft"}, BOOLEAN)
    /\ contracts \in AdviceContracts
    /\ itests \in AdviceTests
    /\ config = NoConfig
    /\ Quiet
    /\ Fresh

NextAdvice == \E feature_id \in IdSet : Quiet /\ CallCompatibilityReport(feature_id)

SpecAdvice == InitAdvice /\ [][NextAdvice]_vars

(***************************************************************************)
(* SpecSelect: the start of a session on ledgers with priorities.          *)
(***************************************************************************)
\* priority fields: missing, more urgent than the default, less urgent
Priorities == {None, Some(1), Some(7)}

\* the ledgers of SpecGate, every feature with one of the priorities
SelectLedgers ==
    UNION {{[i \in 1..Len(l) |-> [l[i] EXCEPT !.priority = ps[i]]] :
                ps \in [1..Len(l) -> Priorities]} :
           l \in Ledgers(MaxGateEdges, {}, BOOLEAN)}

InitSelect ==
    /\ \/ shape = "wrapped" /\ features \in SelectLedgers
       \/ shape = "bare" /\ features \in Ledgers(0, {}, BOOLEAN)
    /\ contracts = <<>>
    /\ itests = TestLedger
    /\ config = Config(TRUE, 1, TRUE, TRUE, TRUE)
    /\ Quiet
    /\ Fresh

NextSelect == \E project_exists \in BOOLEAN : RunStart(Some("S0"), project_exists, TRUE)

SpecSelect == InitSelect /\ [][NextSelect]_vars

(***************************************************************************)
(* SpecProgress, SpecOrder: one session after the other, the collaborator  *)
(* marking at most the feature its session selected.                       *)
(***************************************************************************)
\* ledgers with a cycle: two features depending on each other, alone, with a feature
\* depending on one of them, and with a feature that depends on nothing; three
\* features in a ring
CycleLedgers(passSet) ==
    LET edge(i) == <<BareEdge(AllIds[i])>>
        deps == {<<edge(2), edge(1)>>,
                 <<edge(2), edge(1), edge(1)>>,
                 <<edge(2), edge(1), <<>>>>,
                 <<edge(2), edge(3), edge(1)>>}
    IN  UNION {{[i \in 1..Len(d) |-> Feature(i, ps[i], d[i])] :
                    ps \in [1..Len(d) -> passSet]} : d \in deps}

\* the collaborator marks the feature the session selected
QueryMarksSelected ==
    \E i \in 1..Len(features) :
        /\ session.pc = "query"
        /\ features[i].id = session.next_feature.id
        /\ QueryMarksPasses(i)

NextProgress ==
    \/ RunStart(Some("S0"), TRUE, TRUE)
    \/ QueryMarksSelected
    \/ QueryEnds
    \/ QueryRaises
    \/ RunAgain

InitProgress ==
    /\ shape = "wrapped"
    /\ features \in Ledgers(MaxGraphEdges, {}, BOOLEAN) \cup CycleLedgers(BOOLEAN)
    /\ contracts = <<>>
    /\ itests = TestLedger
    /\ config = Config(TRUE, 1, TRUE, TRUE, TRUE)
    /\ Quiet
    /\ Fresh

SpecProgress == InitProgress /\ [][NextProgress]_vars

\* every feature starts incomplete
InitOrder ==
    /\ shape = "wrapped"
    /\ features \in Ledgers(MaxGraphEdges, {}, {FALSE}) \cup CycleLedgers({FALSE})
    /\ contracts = <<>>
    /\ itests = TestLedger
    /\ config = Config(TRUE, 1, TRUE, TRUE, TRUE)
    /\ Quiet
    /\ Fresh

SpecOrder == InitOrder /\ [][NextProgress]_vars

(***************************************************************************)
(* SpecEmpty: the two checks under every configuration of the tiers.       *)
(***************************************************************************)
InitEmpty ==
    /\ LedgerInit(MaxGateEdges, {}, BOOLEAN)
    /\ contracts = <<>>
    /\ itests = TestLedger
    /\ config \in SmokeConfigs \cup TierConfigs
    /\ Quiet
    /\ Fresh

NextEmpty ==
    \E feature_id \in IdSet :
        \/ Quiet /\ PreCheck(feature_id)
        \/ Quiet /\ PostCheck(feature_id)

SpecEmpty == InitEmpty /\ [][NextEmpty]_vars

(***************************************************************************)
(* SpecTyped: dependency validation on ledgers with edges of every type.   *)
(***************************************************************************)
\* the values of dependency_type
DependencyTypes == {"hard", "soft", "interface"}

\* three features in a chain, the last reaching the first only through the second,
\* over an edge of one of the types
ChainLedgers ==
    {<<Feature(1, ps[1], <<>>),
       Feature(2, ps[2], <<BareEdge(AllIds[1])>>),
       Feature(3, ps[3], <<TypedEdge(AllIds[2], t)>>)>> :
        ps \in [1..3 -> BOOLEAN], t \in DependencyTypes}

InitTyped ==
    /\ \/ LedgerInit(MaxGateEdges, DependencyTypes, BOOLEAN)
       \/ shape = "wrapped" /\ features \in ChainLedgers
    /\ contracts = <<>>
    /\ itests = <<>>
    /\ config = NoConfig
    /\ Quiet
    /\ Fresh

NextTyped == \E feature_id \in IdSet : Quiet /\ CallValidate(feature_id)

SpecTyped == InitTyped /\ [][NextTyped]_vars

(***************************************************************************)
(* What the claims are stated over.                                        *)
(***************************************************************************)
LedgerIds == {features[i].id : i \in 1..Len(features)}
\* the record of an id the ledger holds (ids are unique in every ledger of the model)
RecordOf(id) == CHOOSE f \in Range(features) : f.id = id
\* the ids a feature's own dependency list names; none for an id the ledger does not hold
DirectDeps(id) ==
    IF id \in LedgerIds THEN Range(DepIds(RecordOf(id).dependencies)) ELSE {}
\* a declared dependency blocks when the ledger holds it with passes = false
Blocks(id) == id \in LedgerIds /\ ~RecordOf(id).passes

RECURSIVE Closure(_)
Closure(S) ==
    LET T == S \cup UNION {DirectDeps(x) : x \in S}
    IN  IF T = S THEN S ELSE Closure(T)
\* the ids reachable through one or more declared dependency edges
Reachable(id) == Closure(DirectDeps(id))

\* the call came back with a value: it did not raise
Returned(name) == op.name = name /\ ~Raised(op.result)

(***************************************************************************)
(* C1: for a feature F of the ledger, validate_dependency_order(F) returns *)
(* can_implement = true exactly when every declared dependency of F is     *)
(* absent from the ledger or has passes = true; missing_dependencies and   *)
(* blocked_by are the same list, holding exactly the declared dependencies *)
(* whose record has passes = false (one entry per declaring edge).         *)
(***************************************************************************)
C1_ValidateDependencyOrder ==
    (Returned("validate_dependency_order") /\ op.arg \in LedgerIds) =>
        LET r     == op.result
            deps  == DepIds(RecordOf(op.arg).dependencies)
            block == {i \in 1..Len(deps) : Blocks(deps[i])}
        IN  /\ DOMAIN r = {"can_implement", "missing_dependencies", "blocked_by"}
            /\ r.can_implement <=> (\A i \in 1..Len(deps) :
                                      deps[i] \notin LedgerIds \/ RecordOf(deps[i]).passes)
            /\ r.missing_dependencies = r.blocked_by
            /\ Range(r.missing_dependencies) = {deps[i] : i \in block}
            /\ Len(r.missing_dependencies) = Cardinality(block)
            /\ (deps = <<>> => r.can_implement)

\* F declares an absent dependency and an incomplete one: blocked by the second alone
C1_Witness ==
    /\ Returned("validate_dependency_order")
    /\ op.arg \in LedgerIds
    /\ \E d \in DirectDeps(op.arg) : d \notin LedgerIds
    /\ ~op.result.can_implement
    /\ Len(op.result.missing_dependencies) = 1

\* the features whose own dependency list names id
DirectDependents(id) == {f.id : f \in {g \in Range(features) : id \in DirectDeps(g.id)}}
\* a launched command ended well: it exited with the code 0 every check of the model expects
ExitedZero(outcome) == outcome.kind = "exit" /\ outcome.returncode = 0
\* the check came back with a value: it did not raise
Checked(phase) == gate.phase = phase /\ ~Raised(gate.result)

(***************************************************************************)
(* C2: an id the ledger does not hold gets the not-found result: it alone  *)
(* carries an error field, it never says can_implement = true, and the     *)
(* pre-implementation check built on it never lets work proceed.           *)
(***************************************************************************)
C2_FeatureNotFound ==
    /\ Returned("validate_dependency_order") =>
        /\ ("error" \in DOMAIN op.result) <=> (op.arg \notin LedgerIds)
        /\ op.arg \notin LedgerIds =>
            /\ "can_implement" \in DOMAIN op.result
            /\ ~op.result.can_implement
    /\ (Checked("pre") /\ gate.arg \notin LedgerIds) =>
        /\ "error" \in DOMAIN gate.result.compatibility_report.dependency_validation
        /\ ~gate.result.can_proceed
        /\ gate.result.blockers # <<>>

\* the check of an unknown id with every smoke test passing: blocked all the same
C2_Witness ==
    /\ Checked("pre")
    /\ gate.arg \notin LedgerIds
    /\ gate.outcomes # <<>>
    /\ \A i \in 1..Len(gate.outcomes) : ExitedZero(gate.outcomes[i])
    /\ ~gate.result.can_proceed

(***************************************************************************)
(* C3: the pre-implementation check returns can_proceed = true exactly     *)
(* when dependency_validation.can_implement is true and every smoke test   *)
(* result has passed = true, and exactly then the blockers list is empty.  *)
(***************************************************************************)
C3_PreImplementationGate ==
    Checked("pre") =>
        LET r     == gate.result
            smoke == r.smoke_test_results
            dv    == r.compatibility_report.dependency_validation
        IN  /\ r.can_proceed <=> (dv.can_implement /\ \A i \in 1..Len(smoke) : smoke[i].passed)
            /\ r.can_proceed <=> (r.blockers = <<>>)
            \* the report's validation is that of the ledger, the results those of the commands
            /\ dv.can_implement <=>
                (gate.arg \in LedgerIds /\ \A d \in DirectDeps(gate.arg) : ~Blocks(d))
            /\ Len(smoke) = Len(gate.outcomes)
            /\ Len(smoke) = (IF config.smoke_tests.enabled
                             THEN Len(config.smoke_tests.tests) ELSE 0)
            /\ \A i \in 1..Len(smoke) : smoke[i].passed <=> ExitedZero(gate.outcomes[i])

\* dependencies complete and a smoke test failed: that failure is the one blocker
C3_Witness ==
    /\ Checked("pre")
    /\ gate.result.compatibility_report.dependency_validation.can_implement
    /\ DirectDeps(gate.arg) \cap LedgerIds # {}
    /\ \E i \in 1..Len(gate.outcomes) : ~ExitedZero(gate.outcomes[i])
    /\ ~gate.result.can_proceed
    /\ Len(gate.result.blockers) = 1

\* the events of the session so far that invoked the collaborator
Queries == {k \in 1..Len(session.log) : session.log[k].event = "query"}
\* the post-implementation decision was evaluated for id and came out all_passed
PostCheckSucceeded(id) ==
    /\ Checked("post")
    /\ gate.arg = id
    /\ gate.result.all_passed

(***************************************************************************)
(* C4: in a session the collaborator is invoked only after the             *)
(* pre-implementation check of the selected feature came back with         *)
(* can_proceed = true.  When a dependency is missing or a smoke test       *)
(* failed, the session returns a failure that carries the blocking         *)
(* reasons, and the collaborator is not invoked.                           *)
(***************************************************************************)
C4_CollaboratorAfterGate ==
    session.pc # "idle" =>
        /\ \A k \in Queries :
            /\ k > 1
            /\ session.log[k - 1].event = "pre_check"
            /\ session.log[k - 1].feature_id = session.log[k].feature_id
            /\ session.log[k - 1].can_proceed
            /\ Checked("pre")
            /\ gate.arg = session.log[k].feature_id
            /\ gate.result.can_proceed
            /\ \A i \in 1..Len(gate.outcomes) : ExitedZero(gate.outcomes[i])
            /\ \A d \in DirectDeps(gate.arg) : d \notin LedgerIds \/ d \notin
                   {f.id : f \in {g \in Range(session.log[k].ledger) : ~g.passes}}
        /\ session.pc = "query" => Queries # {}
        /\ (Checked("pre") /\ (\/ ~gate.result.can_proceed
                               \/ \E i \in 1..Len(gate.outcomes) :
                                     ~ExitedZero(gate.outcomes[i]))) =>
            /\ Queries = {}
            /\ session.pc = "returned"
            /\ ~session.result.success
            /\ session.result.features_completed = <<>>
            /\ session.result.message.kind = "Cannot proceed - blockers"
            /\ session.result.message.reasons = gate.result.blockers
            /\ session.result.message.reasons # <<>>
        /\ (session.pc = "returned"
              /\ session.result.message.kind = "All remaining features are blocked") =>
            /\ Queries = {}
            /\ ~session.result.success
            /\ session.result.message.reasons # {}
            /\ session.result.message.reasons \subseteq {id \in LedgerIds : Blocks(id)}

\* the collaborator at work on a feature that has a dependency, after smoke tests ran
C4_Witness ==
    /\ session.pc = "query"
    /\ Checked("pre")
    /\ gate.result.can_proceed
    /\ gate.outcomes # <<>>
    /\ DirectDeps(session.next_feature.id) \cap LedgerIds # {}

(***************************************************************************)
(* C5: in a session a passes flag goes from false to true only after the   *)
(* post-implementation decision for that feature was evaluated with        *)
(* all_passed = true, and no feature is reported as completed without it.  *)
(***************************************************************************)
C5_PassesOnlyAfterPostCheck ==
    /\ session.pc = "query" =>
        \A i \in 1..Len(session.incomplete) :
            (\E j \in 1..Len(features) : /\ features[j].id = session.incomplete[i].id
                                         /\ features[j].passes)
                => PostCheckSucceeded(session.incomplete[i].id)
    /\ session.pc = "returned" =>
        \A i \in 1..Len(session.result.features_completed) :
            PostCheckSucceeded(session.result.features_completed[i])

(***************************************************************************)
(* C6: the post-implementation check returns all_passed = true exactly     *)
(* when every integration-tier result and every regression-tier result     *)
(* produced for the feature has passed = true.                             *)
(***************************************************************************)
C6_PostImplementationDecision ==
    Checked("post") =>
        LET r   == gate.result
            all == r.integration_tests \o r.regression_tests
        IN  /\ r.all_passed <=> \A i \in 1..Len(all) : all[i].passed
            \* one result per launched command, passed when the command exited with 0
            /\ Len(all) = Len(gate.outcomes)
            /\ Len(all) = Len(launched)
            /\ \A i \in 1..Len(all) : all[i].passed <=> ExitedZero(gate.outcomes[i])

\* the integration run passed, the regression run failed: not all passed
C6_Witness ==
    /\ Checked("post")
    /\ Len(gate.result.integration_tests) = 1
    /\ Len(gate.result.regression_tests) = 1
    /\ gate.result.integration_tests[1].passed
    /\ ~gate.result.regression_tests[1].passed
    /\ ~gate.result.all_passed

(***************************************************************************)
(* C7: can_proceed does not depend on advisory information.  Two checks    *)
(* that agree on dependency_validation.can_implement and on the smoke-test *)
(* outcomes give the same can_proceed, whichever feature is checked (and   *)
(* so whatever its dependents) and whatever the contract ledger says;      *)
(* dependents add a warning, and no blocker comes from anything else than  *)
(* a missing dependency or a failed smoke test.                            *)
(***************************************************************************)
C7_AdvisoryOnly ==
    Checked("pre") =>
        LET r == gate.result
        IN  /\ \A g \in IdSet, cs \in ContractLedgers :
                LET other == RunPreImplementationChecks(features, shape, cs, itests,
                                                        config, g, gate.outcomes)
                IN  (other.compatibility_report.dependency_validation.can_implement
                        = r.compatibility_report.dependency_validation.can_implement)
                    => /\ other.can_proceed = r.can_proceed
                       /\ Len(other.blockers) = Len(r.blockers)
                       /\ \A i \in 1..Len(r.blockers) :
                            other.blockers[i].starts = r.blockers[i].starts
            /\ \A i \in 1..Len(r.blockers) :
                r.blockers[i].starts \in {"Missing", "Smoke", "BLOCKED"}
            /\ \A i \in 1..Len(r.warnings) : r.warnings[i].starts = "CAUTION"
            /\ (r.warnings # <<>>) <=> (DirectDependents(gate.arg) # {})

\* a check that lets work proceed although the feature has dependents and consumes an
\* interface whose implementer cannot be implemented yet
C7_Witness ==
    /\ Checked("pre")
    /\ gate.result.can_proceed
    /\ gate.outcomes # <<>>
    /\ ~gate.result.compatibility_report.interface_compatibility.compatible
    /\ gate.result.compatibility_report.dependents # <<>>
    /\ gate.result.warnings # <<>>

(***************************************************************************)
(* C8: the regression tier for a changed feature X runs the integration    *)
(* tier filtered to exactly X and the direct dependents of X: each direct  *)
(* dependent is in the filter, and no other feature is.                    *)
(***************************************************************************)
C8_RegressionScope ==
    Checked("regression") =>
        /\ Len(launched) <= 1
        /\ (launched # <<>>) <=> (/\ config.regression_tests.enabled
                                  /\ config.integration_tests.enabled
                                  /\ config.test_dir_exists)
        /\ \A i \in 1..Len(launched) :
            /\ launched[i].program = "pytest"
            /\ launched[i].filtered
            /\ Range(launched[i].markers) =
                  {<<"feature_", id>> : id \in {gate.arg} \cup DirectDependents(gate.arg)}

\* a regression run whose filter holds a direct dependent and leaves out a second-hop one
C8_Witness ==
    /\ Checked("regression")
    /\ launched # <<>>
    /\ \E b \in DirectDependents(gate.arg) : \E c \in DirectDependents(b) :
        /\ b # gate.arg
        /\ c \notin DirectDependents(gate.arg) \cup {gate.arg}
        /\ <<"feature_", b>> \in Range(launched[1].markers)
        /\ <<"feature_", c>> \notin Range(launched[1].markers)

(***************************************************************************)
(* C9: get_feature_dependencies(F) returns exactly the ids reachable from  *)
(* F through one or more declared dependency edges, bare or typed; a       *)
(* feature without dependencies and an id the ledger does not hold give    *)
(* the empty set and no error.                                             *)
(***************************************************************************)
C9_TransitiveDependencies ==
    Returned("get_feature_dependencies") =>
        /\ op.result.value = Reachable(op.arg)
        /\ (DirectDeps(op.arg) = {} => op.result.value = {})

\* the result holds an id that F reaches only through another feature, over a typed edge
C9_Witness ==
    /\ Returned("get_feature_dependencies")
    /\ \E c \in op.result.value :
        /\ c \notin DirectDeps(op.arg)
        /\ \E b \in DirectDeps(op.arg) : c \in DirectDeps(b)
    /\ \E i \in 1..Len(features) : \E j \in 1..Len(features[i].dependencies) :
            IsDict(features[i].dependencies[j])

(***************************************************************************)
(* C10: the work-list walk ends on every ledger, cyclic or not: once       *)
(* started it reaches its return, and no id is expanded twice.             *)
(***************************************************************************)
ExpandedOnce ==
    walk.pc \in {"loop", "done"} =>
        \A i, j \in 1..Len(walk.expanded) : walk.expanded[i] = walk.expanded[j] => i = j

C10_WalkTerminates ==
    /\ [](ExpandedOnce)
    /\ (walk.pc = "loop") ~> (walk.pc = "done")

\* a walk that came back to its own start (a cycle or a self-loop) and returned
C10_Witness ==
    /\ walk.pc = "done"
    /\ walk.feature_id \in walk.visited
    /\ Cardinality(walk.visited) >= 2

(***************************************************************************)
(* C11: get_dependent_features(X) returns exactly the features whose own   *)
(* dependency list names X, once each and in ledger order: a feature that  *)
(* reaches X only through another feature is not in the result.            *)
(***************************************************************************)
C11_DirectDependents ==
    Returned("get_dependent_features") =>
        LET r == op.result.value
        IN  /\ Range(r) = DirectDependents(op.arg)
            /\ Len(r) = Cardinality(DirectDependents(op.arg))
            /\ \A i, j \in 1..Len(r) :
                i < j => LookupIndex(features, r[i]) < LookupIndex(features, r[j])
            /\ \A c \in LedgerIds :
                (op.arg \notin DirectDeps(c)) => c \notin Range(r)

\* B names X over a typed edge and is returned; C reaches X only through B and is not
C11_Witness ==
    /\ Returned("get_dependent_features")
    /\ \E b \in Range(op.result.value) : \E c \in DirectDependents(b) :
        /\ c \notin Range(op.result.value)
        /\ c # op.arg
        /\ \E j \in 1..Len(RecordOf(b).dependencies) :
            /\ IsDict(RecordOf(b).dependencies[j])
            /\ DepId(RecordOf(b).dependencies[j]) = op.arg

\* validate_dependency_order would say can_implement for id
CanImplement(id) == id \in LedgerIds /\ \A d \in DirectDeps(id) : ~Blocks(d)
\* the contracts that list id in used_by
Consumed(id) == {i \in 1..Len(contracts) : id \in Range(contracts[i].used_by)}
\* contract and position of every implementer that fails can_implement, among the
\* contracts id consumes
FailingImplementers(id) ==
    {p \in Consumed(id) \X (1..MaxImplementers + 1) :
        /\ p[2] <= Len(contracts[p[1]].implemented_by)
        /\ ~CanImplement(contracts[p[1]].implemented_by[p[2]])}

(***************************************************************************)
(* C12: for a feature listed in used_by of a contract, the interface check *)
(* says compatible = true exactly when no implementer of a contract it     *)
(* consumes fails can_implement, and each failing implementer adds one     *)
(* issue naming the contract and that implementer.                         *)
(***************************************************************************)
C12_ConsumerCompatibility ==
    (Returned("check_interface_compatibility") /\ Consumed(op.arg) # {}) =>
        LET r      == op.result
            issues == SelectSeq(r.contracts, LAMBDA x : x.type = "dependency")
        IN  /\ r.compatible <=> (FailingImplementers(op.arg) = {})
            /\ Len(issues) = Cardinality(FailingImplementers(op.arg))
            /\ \A p \in FailingImplementers(op.arg) :
                \E k \in 1..Len(issues) :
                    /\ issues[k].contract = contracts[p[1]].name
                    /\ issues[k].message[4] = contracts[p[1]].implemented_by[p[2]]

(***************************************************************************)
(* C13: whenever the interface check considers a consumer of a contract    *)
(* unblocked (compatible = true), at least one feature in that contract's  *)
(* implemented_by has passes = true.                                       *)
(***************************************************************************)
C13_UnblockedHasImplementation ==
    (Returned("check_interface_compatibility") /\ op.result.compatible) =>
        \A i \in Consumed(op.arg) :
            \E impl \in Range(contracts[i].implemented_by) :
                impl \in LedgerIds /\ RecordOf(impl).passes

\* the TestResults the tier run has built so far
Produced ==
    IF runner.pc = "idle" THEN <<>>
    ELSE IF runner.pc = "returned" THEN runner.value
    ELSE runner.results
\* how often the i-th configured check was launched
Launches(i) ==
    IF runner.pc = "idle" THEN 0
    ELSE Cardinality({k \in 1..Len(runner.launches) : runner.launches[k] = i})
\* where the i-th configured check stands
Status(i) ==
    IF Launches(i) = 0 THEN "PENDING"
    ELSE LET k == CHOOSE n \in 1..Len(runner.launches) : runner.launches[n] = i
         IN  IF k > Len(Produced) THEN "RUNNING"
             ELSE IF Produced[k].passed THEN "PASSED"
             ELSE IF runner.outcomes[k].kind = "exit" THEN "FAILED"
             ELSE IF runner.outcomes[k].kind = "timeout" THEN "TIMED_OUT"
             ELSE "ERRORED"
TerminalStatuses == {"PASSED", "FAILED", "TIMED_OUT", "ERRORED"}
\* the exit code the k-th launched check was expected to give
ExpectedOf(k) == GetOr(runner.tests[runner.launches[k]], "expected_exit_code", 0)

(***************************************************************************)
(* C14: each check of a tier run goes PENDING, RUNNING, then exactly one   *)
(* of PASSED, FAILED, TIMED_OUT, ERRORED and stays there; it produces one  *)
(* TestResult and is never launched a second time in the run, whatever     *)
(* its outcome.                                                            *)
(***************************************************************************)
OneResultPerCheck ==
    runner.pc # "idle" =>
        /\ \A i \in 1..Len(runner.tests) : Launches(i) <= 1
        /\ \A k \in 1..Len(runner.launches) : runner.launches[k] = k
        /\ Len(Produced) <= Len(runner.launches)
        /\ Len(runner.launches) <= Len(Produced) + 1
        /\ Len(launched) = Len(runner.launches)
        /\ \A k \in 1..Len(Produced) :
            Produced[k].test_id = runner.tests[runner.launches[k]].id
        /\ (runner.pc = "returned" /\ config.smoke_tests.enabled) =>
            /\ Len(runner.value) = Len(runner.tests)
            /\ \A i \in 1..Len(runner.tests) : Status(i) \in TerminalStatuses

StatusSteps ==
    \A i \in 1..MaxChecks :
        \/ Status(i)' = Status(i)
        \/ Status(i) = "PENDING" /\ Status(i)' = "RUNNING"
        \/ Status(i) = "RUNNING" /\ Status(i)' \in TerminalStatuses

C14_CheckLifecycle ==
    /\ [](OneResultPerCheck)
    /\ [][StatusSteps]_vars
    /\ \A i \in 1..MaxChecks : (Status(i) = "RUNNING") ~> (Status(i) \in TerminalStatuses)

\* a tier run that returned two results, the first of them failed and not retried
C14_Witness ==
    /\ runner.pc = "returned"
    /\ Len(runner.value) = 2
    /\ Status(1) \in {"FAILED", "TIMED_OUT", "ERRORED"}
    /\ runner.launches = <<1, 2>>

(***************************************************************************)
(* C15: a smoke command that exits with a code other than its              *)
(* expected_exit_code gives one TestResult with passed = false and a       *)
(* non-empty error_message, whatever the process wrote to stderr.          *)
(***************************************************************************)
C15_WrongExitCode ==
    runner.pc # "idle" =>
        \A k \in 1..Len(Produced) :
            (/\ runner.outcomes[k].kind = "exit"
             /\ runner.outcomes[k].returncode # ExpectedOf(k)) =>
                /\ ~Produced[k].passed
                /\ Produced[k].error_message # None
                /\ Produced[k].error_message # Some("")

(***************************************************************************)
(* C16: a check whose process does not exit within the configured timeout  *)
(* gives a TestResult with passed = false, duration_ms equal to the        *)
(* configured seconds times 1000, and a timeout message that no            *)
(* wrong-exit-code failure carries.                                        *)
(***************************************************************************)
C16_Timeout ==
    runner.pc # "idle" =>
        \A k \in 1..Len(Produced) :
            runner.outcomes[k].kind = "timeout" =>
                /\ ~Produced[k].passed
                /\ Produced[k].duration_ms = config.smoke_tests.timeout_seconds * 1000
                /\ Produced[k].error_message =
                    (IF config.smoke_tests.timeout_seconds = SmokeTimeoutSeconds
                     THEN Some("Test timed out after 30 seconds")
                     ELSE Some("Test timed out after 120 seconds"))
                /\ \A j \in 1..Len(Produced) :
                    (runner.outcomes[j].kind = "exit" /\ ~Produced[j].passed) =>
                        Produced[j].error_message # Produced[k].error_message

\* one run with a check that timed out under the longer timeout and one that exited
\* with the wrong code
C16_Witness ==
    /\ runner.pc = "returned"
    /\ config.smoke_tests.timeout_seconds = IntegrationTimeoutSeconds
    /\ \E k, j \in 1..Len(runner.value) :
        /\ runner.outcomes[k].kind = "timeout"
        /\ runner.outcomes[j].kind = "exit"
        /\ ~runner.value[j].passed
        /\ runner.value[j].error_message # Some("")

(***************************************************************************)
(* C17: no tier run raises to its caller.  For every configured check and  *)
(* every way its process can end, and for a malformed entry in the         *)
(* configuration, the run returns its list of TestResults, with            *)
(* passed = false for the affected check and the others still executed.    *)
(***************************************************************************)
C17_TierNeverRaises ==
    /\ runner.pc # "raised"
    /\ (runner.pc = "returned" /\ config.smoke_tests.enabled) =>
        /\ Len(runner.value) = Len(config.smoke_tests.tests)
        /\ \A k \in 1..Len(runner.value) :
            (\/ runner.outcomes[k].kind # "exit"
             \/ runner.outcomes[k].returncode # ExpectedOf(k)
             \/ Malformed(config.smoke_tests.tests[k])) => ~runner.value[k].passed

(***************************************************************************)
(* C18: the result log is append-only.  Whatever tier runs follow one      *)
(* another, in the same clock second or not, every step keeps each batch   *)
(* file that existed before it, with the content it had: a run that        *)
(* persists adds files and rewrites none.                                  *)
(***************************************************************************)
Kept(f) == f \in DOMAIN test_results' /\ test_results'[f] = test_results[f]

C18_AppendOnly == [][\A f \in DOMAIN test_results : Kept(f)]_vars

(***************************************************************************)
(* C19: generate_test_report aggregates, for each tier, the ReportLimit    *)
(* most recent batches of that tier: its totals are those of the batches   *)
(* with fewer than ReportLimit newer batches of their own tier, so the     *)
(* newest batch of every tier is counted whatever the other tiers have     *)
(* persisted.                                                              *)
(***************************************************************************)
\* the batches the report is to aggregate
RecentPerTier ==
    {f \in DOMAIN test_results :
        Cardinality({g \in BatchesOf(f[1]) : g[2] > f[2]}) < ReportLimit}

RECURSIVE Tests(_)
\* the results of a set of batches
Tests(batches) ==
    IF batches = {} THEN <<>>
    ELSE LET f == CHOOSE f \in batches : TRUE
         IN  test_results[f] \o Tests(batches \ {f})

C19_ReportPerTier ==
    Returned("generate_test_report") /\ test_results # NoFiles =>
        LET expected == Tests(RecentPerTier)
        IN  /\ op.result.total_tests = Len(expected)
            /\ op.result.failed = Len(SelectSeq(expected, LAMBDA r : ~r.passed))
            /\ op.result.passed = Len(SelectSeq(expected, LAMBDA r : r.passed))

(***************************************************************************)
(* C20: a ledger-reading operation returns, for a ledger in either shape,  *)
(* what it returns for the same feature records wrapped in a features      *)
(* field.                                                                  *)
(***************************************************************************)
C20_EitherShape ==
    /\ op.name = "validate_dependency_order" =>
           op.result = ValidateDependencyOrder(features, "wrapped", op.arg)
    /\ op.name = "get_dependent_features" =>
           op.result = GetDependentFeatures(features, "wrapped", op.arg)

(***************************************************************************)
(* C21: a validation, whether returned by validate_dependency_order or     *)
(* carried by a compatibility report, is computed from the ledger as it is *)
(* at the call.  For a feature with one declared dependency, held by the   *)
(* ledger: while the dependency has passes = false the feature is blocked  *)
(* with that dependency as its only missing dependency, and once the       *)
(* dependency's passes has been set to true the next computation gives     *)
(* can_implement = true with no missing dependency.                        *)
(***************************************************************************)
\* the validation the last call computed, if it computed one
Computed ==
    IF Returned("validate_dependency_order") THEN <<op.result>>
    ELSE IF Returned("generate_compatibility_report")
         THEN <<op.result.dependency_validation>>
         ELSE <<>>

\* the feature asked about declares exactly one dependency, and the ledger holds it
OnlyDependency ==
    /\ op.arg \in LedgerIds
    /\ Len(RecordOf(op.arg).dependencies) = 1
    /\ DirectDeps(op.arg) \subseteq LedgerIds

C21_ReflectsCurrentLedger ==
    (Computed # <<>> /\ OnlyDependency) =>
        LET v == Computed[1]
            d == CHOOSE d \in DirectDeps(op.arg) : TRUE
        IN  IF RecordOf(d).passes
            THEN v.can_implement /\ v.missing_dependencies = <<>>
            ELSE ~v.can_implement /\ v.missing_dependencies = <<d>>

\* every ledger starts with passes = false throughout: the dependency has been set to
\* true since, and the validation computed after that finds nothing missing
C21_Witness ==
    /\ Returned("validate_dependency_order")
    /\ OnlyDependency
    /\ \A d \in DirectDeps(op.arg) : d # op.arg /\ RecordOf(d).passes
    /\ ~RecordOf(op.arg).passes
    /\ op.result.can_implement
    /\ op.result.missing_dependencies = <<>>

(***************************************************************************)
(* C22: in every TestResult the runner creates, error_message is present   *)
(* (not None) exactly when passed is false; a check that timed out has     *)
(* passed = false and the message of the timeout.                          *)
(***************************************************************************)
C22_MessageIffFailed ==
    runner.pc # "idle" =>
        \A k \in 1..Len(Produced) :
            /\ Produced[k].error_message # None <=> ~Produced[k].passed
            /\ runner.outcomes[k].kind = "timeout" =>
                /\ ~Produced[k].passed
                /\ Produced[k].error_message =
                       Some(TimeoutMessage(config.smoke_tests.timeout_seconds))

\* one run with a check that passed although its process wrote to stderr, and a check
\* that timed out
C22_Witness ==
    /\ runner.pc = "returned"
    /\ \E k, j \in 1..Len(runner.value) :
        /\ runner.outcomes[k] = Exited(0, "warning")
        /\ runner.value[k].passed
        /\ runner.value[k].error_message = None
        /\ runner.outcomes[j].kind = "timeout"
        /\ runner.value[j].error_message # None

(***************************************************************************)
(* C23: on every ledger that loads, for features A and B where B declares  *)
(* a dependency on A, get_dependent_features(A) holds B and does not hold  *)
(* A itself.                                                               *)
(***************************************************************************)
C23_NoSelfMembership ==
    Returned("get_dependent_features") =>
        /\ \A b \in LedgerIds :
            op.arg \in DirectDeps(b) => b \in Range(op.result.value)
        /\ op.arg \notin Range(op.result.value)

(***************************************************************************)
(* C24: the pre-implementation check, the post-implementation check, the   *)
(* compatibility report, the test report and every tier run leave the      *)
(* feature ledger as it was: every step that runs one of them keeps every  *)
(* field of every feature, passes included, and the shape of the file.     *)
(***************************************************************************)
\* the step is a call of a check, a report or a tier: it hands a new value to the
\* gate, writes a batch, or returns from one of the reports or tier runs
CheckStep ==
    \/ gate' # gate /\ gate'.phase # "none"
    \/ test_results' # test_results
    \/ /\ op' # op
       /\ op'.name \in {"generate_compatibility_report", "generate_test_report",
                        "run_smoke_tests", "run_integration_tests"}

C24_LedgerUntouched == [][CheckStep => features' = features /\ shape' = shape]_vars

\* a post-implementation check of an incomplete feature passed, and the feature is
\* still incomplete; the ledger has been rewritten before, so it can change
C24_Witness ==
    /\ Checked("post")
    /\ gate.result.all_passed
    /\ Len(gate.result.integration_tests) = 1
    /\ gate.arg \in LedgerIds
    /\ ~RecordOf(gate.arg).passes
    /\ features # ChecksLedger

(***************************************************************************)
(* C25: the recommendations of a report follow four rules in this order:   *)
(* a BLOCKED line exactly when can_implement is false; then a CAUTION line *)
(* exactly when the feature has dependents; then exactly one of the        *)
(* reminder to run the related integration tests, by name, and the         *)
(* suggestion to add some, the reminder exactly when related tests exist;  *)
(* then one obligation reminder for each contract the feature implements,  *)
(* in the order of the contract file.  The list is a function of the       *)
(* ledger, the contracts and the tests alone.                              *)
(***************************************************************************)
\* the integration tests that list id among the features they test
RelatedTests(id) == SelectSeq(itests, LAMBDA t : id \in Range(t.features_tested))
\* the names of the contracts that list id in implemented_by, in file order
Implemented(id) ==
    LET cs == SelectSeq(contracts, LAMBDA c : id \in Range(c.implemented_by))
    IN  [k \in 1..Len(cs) |-> cs[k].name]

C25_RecommendationRules ==
    Returned("generate_compatibility_report") =>
        LET recs    == op.result.recommendations
            blocked == ~CanImplement(op.arg)
            caution == DirectDependents(op.arg) # {}
            nb      == IF blocked THEN 1 ELSE 0
            nc      == IF caution THEN 1 ELSE 0
            tests   == RelatedTests(op.arg)
            impl    == Implemented(op.arg)
        IN  /\ Len(recs) = nb + nc + 1 + Len(impl)
            /\ blocked => StartsWith(recs[1], "BLOCKED")
            /\ caution => /\ StartsWith(recs[nb + 1], "CAUTION")
                          /\ Range(recs[nb + 1].names) = DirectDependents(op.arg)
            /\ StartsWith(recs[nb + nc + 1], IF tests # <<>> THEN "Run" ELSE "Consider")
            /\ tests # <<>> =>
                   recs[nb + nc + 1].names = [k \in 1..Len(tests) |-> tests[k].name]
            /\ \A k \in 1..Len(impl) :
                   /\ StartsWith(recs[nb + nc + 1 + k], "This")
                   /\ recs[nb + nc + 1 + k].names = <<impl[k]>>

\* a report with all four rules firing, two related tests and two contracts implemented
C25_Witness ==
    /\ Returned("generate_compatibility_report")
    /\ Len(op.result.recommendations) = 5
    /\ StartsWith(op.result.recommendations[1], "BLOCKED")
    /\ StartsWith(op.result.recommendations[2], "CAUTION")
    /\ StartsWith(op.result.recommendations[3], "Run")
    /\ Len(op.result.recommendations[3].names) = 2
    /\ op.result.recommendations[5].names = <<"IQueue">>

(***************************************************************************)
(* C26: the feature a session selects is incomplete and implementable, and *)
(* no other incomplete, implementable feature has a lower priority number  *)
(* (a missing priority counting as DefaultPriority) or the same number and *)
(* an earlier place in the ledger; a session that starts on a ledger with  *)
(* such a feature selects one.                                             *)
(***************************************************************************)
\* the priority number of the record of id
Urgency(id) ==
    IF RecordOf(id).priority = <<>> THEN DefaultPriority ELSE RecordOf(id).priority[1]
\* the incomplete features that validate_dependency_order lets through
Candidates == {id \in LedgerIds : ~RecordOf(id).passes /\ CanImplement(id)}
\* the session got as far as selecting
Selecting ==
    /\ session.pc \in {"query", "returned"}
    /\ session.pc = "returned" => session.result.message.kind = "Cannot proceed - blockers"

Acyclic == \A id \in LedgerIds : id \notin Reachable(id)
Incomplete == {id \in LedgerIds : ~RecordOf(id).passes}

RECURSIVE IncompleteClosure(_)
\* what S reaches over edges between incomplete features
IncompleteClosure(S) ==
    LET T == S \cup UNION {DirectDeps(x) \cap Incomplete : x \in S}
    IN  IF T = S THEN S ELSE IncompleteClosure(T)
\* id lies on a cycle whose members are all incomplete
OnIncompleteCycle(id) ==
    /\ id \in Incomplete
    /\ id \in IncompleteClosure(DirectDeps(id) \cap Incomplete)

AllBlocked ==
    /\ session.pc = "returned"
    /\ session.result.message.kind = "All remaining features are blocked"

ProgressOnAcyclic ==
    Acyclic =>
        /\ Incomplete # {} =>
               \E id \in Incomplete :
                   ValidateDependencyOrder(features, shape, id).can_implement
        /\ ~AllBlocked

CycleBlocked ==
    \A id \in LedgerIds :
        OnIncompleteCycle(id) =>
            /\ ~ValidateDependencyOrder(features, shape, id).can_implement
            /\ gate.phase = "pre" => gate.arg # id
            /\ session.pc = "query" => session.next_feature.id # id

CycleStays == \A id \in LedgerIds : OnIncompleteCycle(id) => OnIncompleteCycle(id)'

C28_CompletionOrder ==
    \A id \in LedgerIds :
        RecordOf(id).passes =>
            \A d \in Reachable(id) \cap LedgerIds : RecordOf(d).passes

\* three sessions have completed a chain of three features, the last of which reaches
\* the first only through the second
C28_Witness ==
    /\ \A id \in LedgerIds : RecordOf(id).passes
    /\ \E id \in LedgerIds :
        /\ Cardinality(DirectDeps(id)) = 1
        /\ Cardinality(Reachable(id) \cap LedgerIds) = 2
    /\ session.pc = "returned"
    /\ session.result.message.kind = "Session completed"

(***************************************************************************)
(* C29: both decisions take an empty list of results as passed.  With the  *)
(* smoke tier disabled or without configured tests, the pre-implementation *)
(* check launches nothing and can_proceed is can_implement.  With the      *)
(* integration test directory absent or the integration tier disabled      *)
(* (alone or together with the regression tier), the post-implementation   *)
(* check launches nothing and decides all_passed = true.                   *)
(***************************************************************************)
NoSmoke == ~config.smoke_tests.enabled \/ config.smoke_tests.tests = <<>>
NoPytest == ~config.test_dir_exists \/ ~config.integration_tests.enabled

C29_EmptyIsPassed ==
    /\ (Checked("pre") /\ NoSmoke) =>
        /\ launched = <<>>
        /\ gate.result.smoke_test_results = <<>>
        /\ gate.result.can_proceed <=> CanImplement(gate.arg)
    /\ (Checked("post") /\ NoPytest) =>
        /\ launched = <<>>
        /\ gate.result.integration_tests = <<>>
        /\ gate.result.regression_tests = <<>>
        /\ gate.result.all_passed

\* both pytest tiers are enabled and there is no test directory: the check of an
\* incomplete feature launches nothing, writes its empty batches and passes
C29_Witness ==
    /\ Checked("post")
    /\ ~config.test_dir_exists
    /\ config.integration_tests.enabled
    /\ config.regression_tests.enabled
    /\ gate.result.all_passed
    /\ launched = <<>>
    /\ gate.arg \in Incomplete
    /\ \E f \in DOMAIN test_results : test_results[f] = <<>>

(***************************************************************************)
(* C30: validate_dependency_order does not look at the type of an edge.    *)
(* Its result is the result for the ledger with every typed edge replaced  *)
(* by the bare id of its target: an incomplete target blocks over a soft   *)
(* or interface edge as over a hard edge or a bare id.  Only the feature's *)
(* own edges count: every missing dependency is a direct one, and an       *)
(* incomplete feature behind a complete direct dependency blocks nothing.  *)
(***************************************************************************)
\* the ledger with every edge written as a bare feature id
Untyped(fs) ==
    [i \in 1..Len(fs) |->
        [fs[i] EXCEPT !.dependencies =
            [j \in 1..Len(fs[i].dependencies) |-> BareEdge(DepId(fs[i].dependencies[j]))]]]

\* the targets of the edges of id, by the type of the edge (a bare id has none)
TargetsOver(id, t) ==
    {d.feature_id : d \in {e \in Range(RecordOf(id).dependencies) :
                              IsDict(e) /\ e.dependency_type = t}}

C30_TypeIgnored ==
    (Returned("validate_dependency_order") /\ op.arg \in LedgerIds) =>
        /\ op.result = ValidateDependencyOrder(Untyped(features), shape, op.arg)
        /\ \A t \in DependencyTypes : \A d \in TargetsOver(op.arg, t) :
            Blocks(d) => /\ ~op.result.can_implement
                         /\ d \in Range(op.result.missing_dependencies)
        /\ Range(op.result.missing_dependencies) \subseteq DirectDeps(op.arg)
        /\ (\A d \in DirectDeps(op.arg) : ~Blocks(d)) => op.result.can_implement

\* a feature blocked over an interface edge, by a feature that has a dependency of
\* its own
C30_Witness ==
    /\ Returned("validate_dependency_order")
    /\ op.arg \in LedgerIds
    /\ \E d \in TargetsOver(op.arg, "interface") :
        /\ d # op.arg
        /\ DirectDeps(d) \cap LedgerIds # {}
        /\ op.result.missing_dependencies = <<d>>
    /\ ~op.result.can_implement

====
